---- MODULE Spec2Model ----
(***************************************************************************)
(* Model of the password text field of gorm (src/text_field.rs): the       *)
(* UTF-8 buffer, the (index, offset) cursor, the selection, the scroll     *)
(* offset and the touch gesture classifier.                                *)
(*                                                                         *)
(* The buffer is a sequence of bytes (the UTF-8 encoding), so that byte    *)
(* offsets, character boundaries and String panics are what they are in    *)
(* the program.  Offsets are 0-based as in the source: byte offset i is    *)
(* the element text[i + 1].                                                *)
(***************************************************************************)
EXTENDS Integers, Sequences, FiniteSets, TLC

\* ------------------------------------------------------------------ bounds
\* Longest buffer, in bytes, that the editing actions build.
MaxBytes == 3

\* Length in bytes of the long buffers of the surrounding-text specification.
BigLen == 10000

\* ------------------------------------------------------- program constants
PADDING == 15
MAX_SURROUNDING_BYTES == 4000
PANGO_SCALE == 1024
max_tap_distance == 400
max_multi_tap == 300
I32_MAX == 2147483647

\* Advance width in pixels of one character of the monospace font at scale 1.
CharPx == 20

\* --------------------------------------------------------------- utilities
Min(a, b) == IF a < b THEN a ELSE b
Max(a, b) == IF a > b THEN a ELSE b
Abs(a) == IF a < 0 THEN -a ELSE a

\* Option<Range<i32>>: None is the empty tuple, Some(s..e) is <<s, e>>.
None == <<>>
Range(s, e) == <<s, e>>

\* ------------------------------------------------------------------- UTF-8
\* The characters of the model, as their UTF-8 encodings:
\*   'a' and ' ' (one byte), U+00E9 'e acute' (two bytes, alphanumeric),
\*   U+00B7 'middle dot' (two bytes, not alphanumeric).
CharA == <<97>>
CharSpace == <<32>>
CharEAcute == <<195, 169>>
CharMidDot == <<194, 183>>
Chars == {CharA, CharSpace, CharEAcute, CharMidDot}

\* A UTF-8 continuation byte (10xxxxxx).
IsContinuation(b) == b >= 128 /\ b < 192

\* str::is_char_boundary: 0 and len are boundaries, an index past the end
\* (or a negative i32 cast to usize) is not.
is_char_boundary(text, i) ==
    \/ i = 0
    \/ i = Len(text)
    \/ i > 0 /\ i < Len(text) /\ ~IsContinuation(text[i + 1])

\* char::is_alphanumeric of the character whose encoding starts at byte
\* offset i ('a' and U+00E9 are, ' ' and U+00B7 are not).
is_alphanumeric(text, i) ==
    \/ text[i + 1] = 97
    \/ text[i + 1] = 195

\* str::char_indices: the byte offsets at which a character starts.
char_indices(text) == {i \in 0..(Len(text) - 1) : ~IsContinuation(text[i + 1])}

\* Number of characters that start before byte offset i.
CharsBefore(text, i) ==
    Cardinality({j \in 0..(Min(i, Len(text)) - 1) : ~IsContinuation(text[j + 1])})

NumChars(text) == Cardinality(char_indices(text))

\* Least byte offset in lo..hi before or at which more than n characters
\* start (found by bisection: the count grows with the offset).
RECURSIVE char_search(_, _, _, _)
char_search(text, n, lo, hi) ==
    IF lo >= hi THEN lo
    ELSE LET mid == (lo + hi) \div 2
         IN  IF CharsBefore(text, mid + 1) > n
             THEN char_search(text, n, lo, mid)
             ELSE char_search(text, n, mid + 1, hi)

\* Byte offset at which character number n (0-based) starts; len past the end.
ByteOfChar(text, n) ==
    IF n >= NumChars(text) THEN Len(text)
    ELSE char_search(text, n, n, Len(text) - 1)

\* String::drain(start..end) / the text left after it.
Drain(text, start, end) == SubSeq(text, 1, start) \o SubSeq(text, end + 1, Len(text))

\* String::drain and slicing panic unless start <= end <= len and both ends
\* are character boundaries.
RangeOk(text, start, end) ==
    /\ start <= end
    /\ end <= Len(text)
    /\ is_char_boundary(text, start)
    /\ is_char_boundary(text, end)

\* String::insert / insert_str at a byte offset (a character boundary).
InsertAt(text, i, s) == SubSeq(text, 1, i) \o s \o SubSeq(text, i + 1, Len(text))

\* -------------------------------------------------------------- TextLayout
\* The shaping layer (crate::renderer::TextLayout over a Pango layout): one
\* line of left-to-right text in a monospace font, every character a
\* grapheme of its own.  Indices outside the text are clamped.

\* Advance width of one character, in Pango units.
layout_char_width(scale) == CharPx * scale * PANGO_SCALE

\* TextLayout::pixel_size().0: width of the text in pixels.
pixel_size(text, scale) == NumChars(text) * CharPx * scale

\* TextLayout::cursor_pos(index).0.x(): x of the cursor, in Pango units.
cursor_pos(text, scale, index) ==
    CharsBefore(text, Max(0, Min(index, Len(text)))) * layout_char_width(scale)

\* TextLayout::xy_to_index(x, y): <<index, trailing>> of the character under
\* x; trailing is 1 on the right half of the character and past the end.
xy_to_index(text, scale, x, y) ==
    LET w == layout_char_width(scale)
        n == NumChars(text)
    IN  IF n = 0 \/ x < 0 THEN <<0, 0>>
        ELSE IF x >= n * w THEN <<ByteOfChar(text, n - 1), 1>>
        ELSE <<ByteOfChar(text, x \div w), IF 2 * (x % w) >= w THEN 1 ELSE 0>>

\* g_utf8_next_char: skip by the length the first byte announces.
next_char(text, p) ==
    IF p >= Len(text) THEN Len(text)
    ELSE IF text[p + 1] >= 192 THEN Min(p + 2, Len(text))
    ELSE p + 1

RECURSIVE advance_chars(_, _, _)
advance_chars(text, p, n) ==
    IF n <= 0 THEN p ELSE advance_chars(text, next_char(text, p), n - 1)

\* TextLayout::move_cursor_visually(true, index, trailing, direction):
\* <<new_index, new_trailing>>; -1 off the start, i32::MAX off the end, and
\* the end of the text is the last character with trailing 1.
move_cursor_visually(text, old_index, old_trailing, direction) ==
    LET p == advance_chars(text, Max(0, Min(old_index, Len(text))), old_trailing)
        vis_pos == CharsBefore(text, p)
        n_vis == NumChars(text)
        dir == IF direction >= 0 THEN 1 ELSE -1
        new_index == ByteOfChar(text, vis_pos + dir)
    IN  IF vis_pos = 0 /\ dir < 0 THEN <<-1, 0>>
        ELSE IF vis_pos = n_vis /\ dir > 0 THEN <<I32_MAX, 0>>
        ELSE IF new_index = Len(text) /\ Len(text) > 0
             THEN <<ByteOfChar(text, n_vis - 1), 1>>
        ELSE <<new_index, 0>>

\* ------------------------------------------------------------- TouchState
Position(x, y) == [x |-> x, y |-> y]

\* A panic (String::drain, String::insert, slicing) ends the program.
Panic(f) == [f EXCEPT !.panicked = TRUE]

\* TouchState::down without the third step of the cycle: a DoubleTap is
\* followed by a Tap.
TouchState_down_no_triple(ts, time, position, byte_index, focused) ==
    LET dx == position.x - ts.last_position.x
        dy == position.y - ts.last_position.y
        action ==
            IF ~focused THEN "Focus"
            ELSE IF /\ ts.last_time + max_multi_tap >= time
                    /\ dx * dx + dy * dy <= max_tap_distance
                 THEN CASE ts.action = "Tap" -> "DoubleTap"
                        [] OTHER -> "Tap"
            ELSE "Tap"
    IN  [action |-> action,
         last_time |-> time,
         last_position |-> position,
         last_motion_position |-> position,
         start_byte_index |-> byte_index]

\* TouchState::down escalating when the down is near in time or in space.
TouchState_down_either(ts, time, position, byte_index, focused) ==
    LET dx == position.x - ts.last_position.x
        dy == position.y - ts.last_position.y
        action ==
            IF ~focused THEN "Focus"
            ELSE IF \/ ts.last_time + max_multi_tap >= time
                    \/ dx * dx + dy * dy <= max_tap_distance
                 THEN CASE ts.action = "Tap" -> "DoubleTap"
                        [] ts.action = "DoubleTap" -> "TripleTap"
                        [] OTHER -> "Tap"
            ELSE "Tap"
    IN  [action |-> action,
         last_time |-> time,
         last_position |-> position,
         last_motion_position |-> position,
         start_byte_index |-> byte_index]

\* TouchState::down.  The u32 sum last_time + max_multi_tap does not wrap
\* for the timestamps of the model, which stay far below 2^32.
TouchState_down(ts, time, position, byte_index, focused) ==
    LET dx == position.x - ts.last_position.x
        dy == position.y - ts.last_position.y
        action ==
            IF ~focused THEN "Focus"
            ELSE IF /\ ts.last_time + max_multi_tap >= time
                    /\ dx * dx + dy * dy <= max_tap_distance
                 THEN CASE ts.action = "Tap" -> "DoubleTap"
                        [] ts.action = "DoubleTap" -> "TripleTap"
                        [] OTHER -> "Tap"
            ELSE "Tap"
    IN  [action |-> action,
         last_time |-> time,
         last_position |-> position,
         last_motion_position |-> position,
         start_byte_index |-> byte_index]

\* A classification of the drag in which a tie goes to the start caret.
motion_action_start_ties(ts, selection) ==
    IF selection = None THEN "Drag"
    ELSE LET start_delta == Abs(ts.start_byte_index - selection[1])
             end_delta == Abs(ts.start_byte_index - selection[2])
         IN  IF start_delta <= end_delta /\ start_delta < 2 THEN "DragSelectionStart"
             ELSE IF end_delta < 2 THEN "DragSelectionEnd"
             ELSE "Drag"

\* The action TouchState::motion leaves a Tap that left the dead zone in.
motion_action(ts, selection) ==
    IF selection = None THEN "Drag"
    ELSE LET start_delta == Abs(ts.start_byte_index - selection[1])
             end_delta == Abs(ts.start_byte_index - selection[2])
         IN  IF end_delta <= start_delta /\ end_delta < 2 THEN "DragSelectionEnd"
             ELSE IF start_delta < 2 THEN "DragSelectionStart"
             ELSE "Drag"

\* A TouchState::motion whose dead zone ends before the tap distance.
TouchState_motion_short_of_distance(ts, position, selection) ==
    LET inc == Position(position.x - ts.last_motion_position.x,
                        position.y - ts.last_motion_position.y)
        moved == [ts EXCEPT !.last_motion_position = position]
        delta == Position(position.x - ts.last_position.x,
                          position.y - ts.last_position.y)
    IN  IF ts.action # "Tap" THEN <<moved, inc>>
        ELSE IF delta.x * delta.x + delta.y * delta.y < max_tap_distance
             THEN <<moved, delta>>
        ELSE <<[moved EXCEPT !.action = motion_action(ts, selection)], delta>>

\* TouchState::motion: <<new touch state, returned delta>>.
TouchState_motion(ts, position, selection) ==
    LET inc == Position(position.x - ts.last_motion_position.x,
                        position.y - ts.last_motion_position.y)
        moved == [ts EXCEPT !.last_motion_position = position]
        delta == Position(position.x - ts.last_position.x,
                          position.y - ts.last_position.y)
    IN  IF ts.action # "Tap" THEN <<moved, inc>>
        ELSE IF delta.x * delta.x + delta.y * delta.y <= max_tap_distance
             THEN <<moved, delta>>
        ELSE <<[moved EXCEPT !.action = motion_action(ts, selection)], delta>>

\* -------------------------------------------------------------- TextField
\* A text field `f` is the record of the struct's fields (the layout is its
\* text and scale), plus `panicked`.

\* TextField::cursor_byte_index: a positive offset is advanced to the next
\* character boundary; past the end of the text the loop only ends when the
\* i32 has wrapped around to 0.
cursor_byte_index(f, index, offset) ==
    IF offset > 0
    THEN IF index + offset > Len(f.text) THEN 0
         ELSE CHOOSE b \in Max(0, index + offset)..Len(f.text) :
                /\ is_char_boundary(f.text, b)
                /\ \A c \in Max(0, index + offset)..(b - 1) : ~is_char_boundary(f.text, c)
    ELSE index + offset

\* TextField::cursor_index.
cursor_index(f) == cursor_byte_index(f, f.cursor_index, f.cursor_offset)

\* TextField::clamp_scroll_offset.
clamp_scroll_offset(f) ==
    LET min_offset == -Max(pixel_size(f.text, f.scale) - f.width, 0)
        clamped_offset == Max(Min(f.scroll_offset, 0), min_offset)
    IN  [f EXCEPT !.dirty = f.dirty \/ clamped_offset # f.scroll_offset,
                  !.scroll_offset = clamped_offset]

\* An update_scroll_offset_to that only scrolls towards the end of the text.
update_scroll_offset_to_forward(f, index) ==
    LET cursor_x == cursor_pos(f.text, f.scale, index) \div PANGO_SCALE
        delta == cursor_x + f.scroll_offset - f.width
    IN  IF delta > 0
        THEN clamp_scroll_offset(
                [f EXCEPT !.scroll_offset = f.scroll_offset - delta, !.dirty = TRUE])
        ELSE clamp_scroll_offset(f)

\* TextField::update_scroll_offset_to.
update_scroll_offset_to(f, index) ==
    LET cursor_x == cursor_pos(f.text, f.scale, index) \div PANGO_SCALE
        delta == cursor_x + f.scroll_offset - f.width
    IN  IF delta > 0
        THEN clamp_scroll_offset(
                [f EXCEPT !.scroll_offset = f.scroll_offset - delta, !.dirty = TRUE])
        ELSE IF cursor_x + f.scroll_offset < 0
        THEN clamp_scroll_offset([f EXCEPT !.scroll_offset = -cursor_x, !.dirty = TRUE])
        ELSE clamp_scroll_offset(f)

\* TextField::update_scroll_offset.
update_scroll_offset(f) ==
    IF f.selection # None
    THEN update_scroll_offset_to(update_scroll_offset_to(f, f.selection[1]), f.selection[2])
    ELSE IF f.preedit[1] = <<>>
    THEN update_scroll_offset_to(f, cursor_index(f))
    ELSE update_scroll_offset_to(update_scroll_offset_to(f, f.preedit[2]), f.preedit[3])

\* The loop of TextField::move_cursor: |positions| steps, left at the first
\* step that leaves 0..i32::MAX.
RECURSIVE move_cursor_steps(_, _, _)
move_cursor_steps(f, n, direction) ==
    IF n = 0 THEN f
    ELSE LET r == move_cursor_visually(f.text, f.cursor_index, f.cursor_offset, direction)
         IN  IF 0 <= r[1] /\ r[1] < I32_MAX
             THEN move_cursor_steps(
                    [f EXCEPT !.cursor_index = r[1], !.cursor_offset = r[2]],
                    n - 1, direction)
             ELSE f

\* TextField::move_cursor.
move_cursor(f, positions) ==
    [update_scroll_offset(move_cursor_steps(f, Abs(positions), positions))
        EXCEPT !.text_input_dirty = TRUE, !.dirty = TRUE]

\* TextField::clear_selection.
clear_selection(f) ==
    [f EXCEPT !.selection = None, !.text_input_dirty = TRUE, !.dirty = TRUE]

\* A select that moves the cursor to the end of the selection.
select_moving_cursor(f, range_start, range_end) ==
    LET start == Max(range_start, 0)
        end == Min(range_end, Len(f.text))
    IN  IF start < end
        THEN [update_scroll_offset(
                [f EXCEPT !.selection = Range(start, end),
                          !.cursor_index = end,
                          !.cursor_offset = 0])
                EXCEPT !.text_input_dirty = TRUE, !.dirty = TRUE]
        ELSE clear_selection(f)

\* TextField::select, on the range start..end; an unbounded start is passed
\* as i32::MIN and an unbounded end as i32::MAX, as the code resolves them.
select(f, range_start, range_end) ==
    LET start == Max(range_start, 0)
        end == Min(range_end, Len(f.text))
    IN  IF start < end
        THEN [update_scroll_offset([f EXCEPT !.selection = Range(start, end)])
                EXCEPT !.text_input_dirty = TRUE, !.dirty = TRUE]
        ELSE clear_selection(f)

\* select(..)
select_all(f) == select(f, -I32_MAX - 1, I32_MAX)

\* TextField::delete_selected.
delete_selected(f, selection) ==
    IF ~RangeOk(f.text, selection[1], selection[2]) THEN Panic(f)
    ELSE LET text == Drain(f.text, selection[1], selection[2])
             at_end == selection[1] > 0 /\ selection[1] = Len(text)
         IN  [f EXCEPT !.text = text,
                       !.cursor_index = IF at_end THEN selection[1] - 1 ELSE selection[1],
                       !.cursor_offset = IF at_end THEN 1 ELSE 0,
                       !.text_input_dirty = TRUE,
                       !.dirty = TRUE]

\* TextField::selection_text: the selected slice of the text, None without
\* a selection.  The slice panics on a range that is not one of the text.
selection_text_panics(f) ==
    f.selection # None /\ ~RangeOk(f.text, f.selection[1], f.selection[2])

selection_text(f) ==
    IF f.selection = None THEN None
    ELSE SubSeq(f.text, f.selection[1] + 1, f.selection[2])

\* A set_focused that selects the text at every set_focused(true).
set_focused_always_selecting(f, focused) ==
    LET g == IF focused THEN select_all(f)
             ELSE IF ~focused /\ f.focused THEN clear_selection(f)
             ELSE f
    IN  [g EXCEPT !.focused = focused, !.text_input_dirty = TRUE, !.dirty = TRUE]

\* TextField::set_focused.
set_focused(f, focused) ==
    LET g == IF focused /\ ~f.focused THEN select_all(f)
             ELSE IF ~focused /\ f.focused THEN clear_selection(f)
             ELSE f
    IN  [g EXCEPT !.focused = focused, !.text_input_dirty = TRUE, !.dirty = TRUE]

\* TextField::set_submit_handler: <<field, replaced handler>>.  A handler is
\* modelled by its name.
set_submit_handler(f, handler) ==
    <<[f EXCEPT !.submit_handler = handler], f.submit_handler>>

\* A submit that calls the handler a second time after the blur.
submit_twice(f) ==
    LET call == <<f.submit_handler, f.text>>
    IN  [set_focused([f EXCEPT !.submitted = @ \o <<call>>], FALSE)
            EXCEPT !.submitted = @ \o <<call>>]

\* TextField::submit.  `submitted` lists the calls of the submit handler
\* made by the latest press_key, each as <<handler, text passed to it>>.
submit(f) ==
    set_focused([f EXCEPT !.submitted = @ \o <<<<f.submit_handler, f.text>>>>], FALSE)

\* TextField::set_width.
set_width(f, width) ==
    [update_scroll_offset([f EXCEPT !.width = width]) EXCEPT !.dirty = TRUE]

\* TextField::set_scale.
set_scale(f, scale) == [f EXCEPT !.scale = scale, !.dirty = TRUE]

\* A paste that does not mark the text-input state as changed.
paste_unmarked(f, text) ==
    LET g == IF f.selection # None
             THEN delete_selected([f EXCEPT !.selection = None], f.selection)
             ELSE f
        index == cursor_index(g)
    IN  IF g.panicked THEN g
        ELSE IF ~is_char_boundary(g.text, index) THEN Panic(g)
        ELSE [update_scroll_offset(
                [g EXCEPT !.text = InsertAt(g.text, index, text),
                          !.cursor_index = g.cursor_index + Len(text)])
                EXCEPT !.dirty = TRUE]

\* TextField::paste.
paste(f, text) ==
    LET g == IF f.selection # None
             THEN delete_selected([f EXCEPT !.selection = None], f.selection)
             ELSE f
        index == cursor_index(g)
    IN  IF g.panicked THEN g
        ELSE IF ~is_char_boundary(g.text, index) THEN Panic(g)
        ELSE [update_scroll_offset(
                [g EXCEPT !.text = InsertAt(g.text, index, text),
                          !.cursor_index = g.cursor_index + Len(text)])
                EXCEPT !.text_input_dirty = TRUE, !.dirty = TRUE]

\* TextField::commit_string.
commit_string(f, text) == paste([f EXCEPT !.change_cause = "InputMethod"], text)

\* TextField::set_preedit_string.
set_preedit_string(f, text, cursor_begin, cursor_end) ==
    LET g == IF text # <<>> /\ f.selection # None
             THEN delete_selected([f EXCEPT !.selection = None], f.selection)
             ELSE f
    IN  IF g.panicked THEN g
        ELSE [update_scroll_offset([g EXCEPT !.preedit = <<text, cursor_begin, cursor_end>>])
                EXCEPT !.text_input_dirty = TRUE, !.dirty = TRUE]

\* TextField::delete_surrounding_text.
delete_surrounding_text(f, before_length, after_length) ==
    LET index == cursor_index(f)
        end == Min(index + after_length, Len(f.text))
        start == Max(index - before_length, 0)
    IN  IF ~RangeOk(f.text, index, end) THEN Panic(f)
        ELSE LET text == Drain(f.text, index, end)
             IN  IF ~RangeOk(text, start, index) THEN Panic(f)
                 ELSE [update_scroll_offset(
                         [f EXCEPT !.text = Drain(text, start, index),
                                   !.cursor_index = start,
                                   !.cursor_offset = 0])
                         EXCEPT !.change_cause = "InputMethod",
                                !.text_input_dirty = TRUE,
                                !.dirty = TRUE]

\* Keysym::key_char: the UTF-8 encoding of the key's character, or None.
key_char(keysym) ==
    CASE keysym = "a" -> CharA
      [] keysym = "space" -> CharSpace
      [] keysym = "eacute" -> CharEAcute
      [] keysym = "periodcentered" -> CharMidDot
      [] keysym = "C" -> <<67>>
      [] keysym = "V" -> <<86>>
      [] keysym = "Return" -> <<13>>
      [] keysym = "BackSpace" -> <<8>>
      [] keysym = "Delete" -> <<127>>
      [] OTHER -> None

Modifiers(shift, ctrl, alt, logo) ==
    [shift |-> shift, ctrl |-> ctrl, alt |-> alt, logo |-> logo]

NoModifiers == Modifiers(FALSE, FALSE, FALSE, FALSE)

\* press_key, Keysym::Left.
press_left(f) ==
    LET g == IF f.selection # None
             THEN [f EXCEPT !.selection = None,
                            !.cursor_index = f.selection[1],
                            !.cursor_offset = 0]
             ELSE move_cursor(f, -1)
    IN  [g EXCEPT !.text_input_dirty = TRUE, !.dirty = TRUE]

\* press_key, Keysym::Right.
press_right(f) ==
    LET text_len == Len(f.text)
        g == IF f.selection # None
             THEN IF f.selection[2] >= text_len
                  THEN [f EXCEPT !.selection = None,
                                 !.cursor_index = text_len - 1,
                                 !.cursor_offset = 1]
                  ELSE [f EXCEPT !.selection = None,
                                 !.cursor_index = f.selection[2],
                                 !.cursor_offset = 0]
             ELSE move_cursor(f, 1)
    IN  [g EXCEPT !.text_input_dirty = TRUE, !.dirty = TRUE]

\* press_key, Keysym::BackSpace.
press_backspace(f) ==
    IF f.selection # None
    THEN delete_selected([f EXCEPT !.selection = None], f.selection)
    ELSE LET end_index == cursor_index(f)
             g == move_cursor(f, -1)
             start_index == cursor_index(g)
         IN  IF ~RangeOk(g.text, start_index, end_index) THEN Panic(g)
             ELSE [update_scroll_offset(
                     [g EXCEPT !.text = Drain(g.text, start_index, end_index)])
                     EXCEPT !.text_input_dirty = TRUE, !.dirty = TRUE]

\* press_key, Keysym::Delete.
press_delete(f) ==
    IF f.selection # None
    THEN delete_selected([f EXCEPT !.selection = None], f.selection)
    ELSE IF Len(f.text) = f.cursor_index + f.cursor_offset THEN f
    ELSE LET start_index == cursor_index(f)
             g == move_cursor(f, 1)
             end_index == cursor_index(g)
             h == move_cursor(g, -1)
         IN  IF ~RangeOk(f.text, start_index, end_index) THEN Panic(h)
             ELSE [h EXCEPT !.text = Drain(f.text, start_index, end_index),
                            !.text_input_dirty = TRUE,
                            !.dirty = TRUE]

\* press_key, any other key without ctrl.
press_char(f, keysym) ==
    LET g == IF f.selection # None
             THEN delete_selected([f EXCEPT !.selection = None], f.selection)
             ELSE f
        index == cursor_index(g)
    IN  IF g.panicked \/ key_char(keysym) = None THEN g
        ELSE IF ~is_char_boundary(g.text, index) THEN Panic(g)
        ELSE [move_cursor([g EXCEPT !.text = InsertAt(g.text, index, key_char(keysym))], 1)
                EXCEPT !.text_input_dirty = TRUE, !.dirty = TRUE]

\* TextField::press_key.  Copy hands the selected text to the clipboard and
\* Paste asks the clipboard for text (which arrives later through paste):
\* neither changes the field.
press_key(f0, keysym, modifiers) ==
    LET f == [f0 EXCEPT !.submitted = <<>>]
    IN  IF modifiers.logo \/ modifiers.alt THEN f
        ELSE IF keysym = "Return" /\ ~modifiers.shift /\ ~modifiers.ctrl THEN submit(f)
        ELSE IF keysym = "Left" /\ ~modifiers.shift /\ ~modifiers.ctrl THEN press_left(f)
        ELSE IF keysym = "Right" /\ ~modifiers.shift /\ ~modifiers.ctrl THEN press_right(f)
        ELSE IF keysym = "BackSpace" /\ ~modifiers.shift /\ ~modifiers.ctrl
        THEN press_backspace(f)
        ELSE IF keysym = "Delete" /\ ~modifiers.shift /\ ~modifiers.ctrl
        THEN press_delete(f)
        ELSE IF keysym = "XF86_Copy" \/ (keysym = "C" /\ modifiers.shift /\ modifiers.ctrl)
        THEN IF selection_text_panics(f) THEN Panic(f) ELSE f
        ELSE IF keysym = "XF86_Paste" \/ (keysym = "V" /\ modifiers.shift /\ modifiers.ctrl)
        THEN f
        ELSE IF ~modifiers.ctrl THEN press_char(f, keysym)
        ELSE f

\* The index under a touch position (relative to the text origin), as
\* touch_down, touch_motion and touch_up compute it: <<index, offset>>.
hit_test(f, position) ==
    xy_to_index(f.text, f.scale,
                (position.x - f.scroll_offset) * PANGO_SCALE,
                position.y * PANGO_SCALE)

\* The position with the padding taken off.
unpadded(f, position) == Position(position.x - PADDING * f.scale, position.y)

\* TextField::touch_down.
touch_down(f, time, position) ==
    LET pos == unpadded(f, position)
        hit == hit_test(f, pos)
        byte_index == cursor_byte_index(f, hit[1], hit[2])
    IN  [f EXCEPT !.touch_state =
            TouchState_down(f.touch_state, time, pos, byte_index, f.focused)]

\* The selection drag that swaps the ends but goes on editing the same one.
drag_selection_no_flip(selection, action, byte_index) ==
    LET modifies_start == action = "DragSelectionStart"
        start == IF modifies_start /\ byte_index # selection[2]
                 THEN byte_index ELSE selection[1]
        end == IF ~(modifies_start /\ byte_index # selection[2])
                  /\ ~modifies_start /\ byte_index # selection[1]
               THEN byte_index ELSE selection[2]
    IN  IF start > end THEN <<Range(end, start), action>>
        ELSE <<Range(start, end), action>>

\* A selection drag that moves the caret onto the opposite one as well.
drag_selection_collapsing(selection, action, byte_index) ==
    LET modifies_start == action = "DragSelectionStart"
        start == IF modifies_start THEN byte_index ELSE selection[1]
        end == IF ~modifies_start THEN byte_index ELSE selection[2]
    IN  IF start > end
        THEN <<Range(end, start),
               IF modifies_start THEN "DragSelectionEnd" ELSE "DragSelectionStart">>
        ELSE <<Range(start, end), action>>

\* The selection after a selection drag to byte_index, and the action the
\* gesture continues with (touch_motion, the DragSelection arm).
drag_selection(selection, action, byte_index) ==
    LET modifies_start == action = "DragSelectionStart"
        start == IF modifies_start /\ byte_index # selection[2]
                 THEN byte_index ELSE selection[1]
        end == IF ~(modifies_start /\ byte_index # selection[2])
                  /\ ~modifies_start /\ byte_index # selection[1]
               THEN byte_index ELSE selection[2]
    IN  IF start > end
        THEN <<Range(end, start),
               IF modifies_start THEN "DragSelectionEnd" ELSE "DragSelectionStart">>
        ELSE <<Range(start, end), action>>

\* TextField::touch_motion.
touch_motion(f, position) ==
    LET pos == unpadded(f, position)
        m == TouchState_motion(f.touch_state, pos, f.selection)
        g == [f EXCEPT !.touch_state = m[1]]
        action == m[1].action
        delta == m[2]
    IN  IF action = "Drag"
        THEN [clamp_scroll_offset([g EXCEPT !.scroll_offset = g.scroll_offset + delta.x])
                EXCEPT !.dirty = TRUE]
        ELSE IF action \in {"DragSelectionStart", "DragSelectionEnd"} /\ g.selection # None
        THEN LET hit == hit_test(g, pos)
                 byte_index == cursor_byte_index(g, hit[1], hit[2])
                 d == drag_selection(g.selection, action, byte_index)
             IN  [update_scroll_offset(
                    [g EXCEPT !.selection = d[1], !.touch_state.action = d[2]])
                    EXCEPT !.text_input_dirty = TRUE, !.dirty = TRUE]
        ELSE g

\* The word scan that starts the word at the delimiter instead of after it.
RECURSIVE word_scan_at_delimiter(_, _, _, _)
word_scan_at_delimiter(text, byte_index, i, word_start) ==
    IF i >= Len(text) THEN <<word_start, Len(text)>>
    ELSE IF IsContinuation(text[i + 1])
    THEN word_scan_at_delimiter(text, byte_index, i + 1, word_start)
    ELSE IF i + 1 < byte_index /\ ~is_alphanumeric(text, i)
    THEN word_scan_at_delimiter(text, byte_index, i + 1, i)
    ELSE IF i > byte_index /\ ~is_alphanumeric(text, i)
    THEN <<word_start, i>>
    ELSE word_scan_at_delimiter(text, byte_index, i + 1, word_start)

\* The loop of the DoubleTap arm of touch_up over char_indices, from byte
\* offset i on: <<word_start, word_end>>.
RECURSIVE word_scan(_, _, _, _)
word_scan(text, byte_index, i, word_start) ==
    IF i >= Len(text) THEN <<word_start, Len(text)>>
    ELSE IF IsContinuation(text[i + 1]) THEN word_scan(text, byte_index, i + 1, word_start)
    ELSE IF i + 1 < byte_index /\ ~is_alphanumeric(text, i)
    THEN word_scan(text, byte_index, i + 1, i + 1)
    ELSE IF i > byte_index /\ ~is_alphanumeric(text, i)
    THEN <<word_start, i>>
    ELSE word_scan(text, byte_index, i + 1, word_start)

\* The word range a double tap at byte_index selects.
word_range(text, byte_index) == word_scan(text, byte_index, 0, 0)

\* A touch_up that handles the release of a focusing touch as a tap.
touch_up_tapping_focus(f) ==
    LET action == f.touch_state.action
        hit == hit_test(f, f.touch_state.last_position)
        byte_index == cursor_byte_index(f, hit[1], hit[2])
        word == word_range(f.text, byte_index)
    IN  IF action \in {"Drag", "DragSelectionStart", "DragSelectionEnd"} THEN f
        ELSE IF action \in {"Tap", "Focus"}
        THEN set_focused(
                [clear_selection([f EXCEPT !.cursor_index = hit[1], !.cursor_offset = hit[2]])
                    EXCEPT !.text_input_dirty = TRUE, !.dirty = TRUE],
                TRUE)
        ELSE IF action = "DoubleTap"
        THEN set_focused(select(f, word[1], word[2]), TRUE)
        ELSE set_focused(select_all(f), TRUE)

\* TextField::touch_up.
touch_up(f) ==
    LET action == f.touch_state.action
        hit == hit_test(f, f.touch_state.last_position)
        byte_index == cursor_byte_index(f, hit[1], hit[2])
        word == word_range(f.text, byte_index)
    IN  IF action \in {"Drag", "DragSelectionStart", "DragSelectionEnd", "Focus"} THEN f
        ELSE IF action = "Tap"
        THEN set_focused(
                [clear_selection([f EXCEPT !.cursor_index = hit[1], !.cursor_offset = hit[2]])
                    EXCEPT !.text_input_dirty = TRUE, !.dirty = TRUE],
                TRUE)
        ELSE IF action = "DoubleTap"
        THEN set_focused(select(f, word[1], word[2]), TRUE)
        ELSE set_focused(select_all(f), TRUE)

\* TextField::surrounding_text: the window text[start..end] around the
\* cursor and the cursor (or selection) offsets relative to its start.  The
\* usize differences are those of a build without overflow checks: with the
\* cursor past the end of the text, end - cursor_index wraps around and
\* MAX_SURROUNDING_BYTES minus it is the budget plus the overshoot.
RECURSIVE boundary_before(_, _)
boundary_before(text, end) ==
    IF end > 0 /\ ~is_char_boundary(text, end) THEN boundary_before(text, end - 1)
    ELSE end

RECURSIVE boundary_after(_, _)
boundary_after(text, start) ==
    IF start < Len(text) /\ ~is_char_boundary(text, start)
    THEN boundary_after(text, start + 1)
    ELSE start

\* The end of the window with the whole budget taken after the cursor.
surrounding_end_whole(f) ==
    LET cursor == Max(cursor_index(f), 0)
        end == cursor + MAX_SURROUNDING_BYTES
    IN  IF end >= Len(f.text) THEN Len(f.text) ELSE boundary_before(f.text, end)

surrounding_end(f) ==
    LET cursor == Max(cursor_index(f), 0)
        end == cursor + MAX_SURROUNDING_BYTES \div 2
    IN  IF end >= Len(f.text) THEN Len(f.text) ELSE boundary_before(f.text, end)

surrounding_start(f) ==
    LET cursor == Max(cursor_index(f), 0)
        remaining == MAX_SURROUNDING_BYTES - (surrounding_end(f) - cursor)
    IN  boundary_after(f.text, Max(cursor - remaining, 0))

\* The slice text[start..end] panics on a range that is not one of the text.
surrounding_text_panics(f) ==
    ~RangeOk(f.text, surrounding_start(f), surrounding_end(f))

\* The surrounding text with offsets into the whole buffer.
surrounding_text_absolute(f) ==
    LET cursor == Max(cursor_index(f), 0)
        start == surrounding_start(f)
        end == surrounding_end(f)
        cursor_start == IF f.selection # None THEN f.selection[1] ELSE cursor
        cursor_end == IF f.selection # None THEN f.selection[2] ELSE cursor
    IN  [text |-> SubSeq(f.text, start + 1, end),
         cursor_start |-> cursor_start,
         cursor_end |-> cursor_end]

surrounding_text(f) ==
    LET cursor == Max(cursor_index(f), 0)
        start == surrounding_start(f)
        end == surrounding_end(f)
        cursor_start == IF f.selection # None THEN f.selection[1] ELSE cursor
        cursor_end == IF f.selection # None THEN f.selection[2] ELSE cursor
    IN  [text |-> SubSeq(f.text, start + 1, end),
         cursor_start |-> cursor_start - start,
         cursor_end |-> cursor_end - start]

\* TextField::cursor_rect: x of the cursor rectangle (the other coordinates
\* are the layout's line geometry).
cursor_rect(f) ==
    PADDING * f.scale + cursor_pos(f.text, f.scale, cursor_index(f)) \div PANGO_SCALE


\* ------------------------------------------------------------------ Window
\* The window is the record of the struct's fields that decide what reaches
\* the password field and the input method: the view, the redraw scheduling
\* and the text-input wrapper, and the connect button with the D-Bus call it
\* makes.  The other buttons and the scroll position of the list of access
\* points are left out (the list fits the window, its velocity is zero).
VARIABLES
    window,     \* the Window
    touching,   \* a touch point is down (state of the touch screen)
    clock,      \* timestamp of the latest touch-down event
    pasting     \* a clipboard read requested by the paste key is outstanding

vars == <<window, touching, clock, pasting>>

OUTSIDE_PADDING == 10
BUTTON_PADDING == 20
BUTTON_HEIGHT == 50
INPUT_HEIGHT == 40
DEFAULT_WIDTH == 360

\* dbus::AccessPoint, the fields the window looks at (saved: it has a profile).
AccessPoint(private, saved, connected) ==
    [private |-> private, saved |-> saved, connected |-> connected]

\* View::List and View::Details(access_point).
List == [details |-> FALSE, access_point |-> AccessPoint(FALSE, FALSE, FALSE)]
Details(access_point) == [details |-> TRUE, access_point |-> access_point]

\* TextField::new.
TextField_new ==
    [text |-> <<>>,
     cursor_index |-> 0,
     cursor_offset |-> 0,
     scroll_offset |-> 0,
     selection |-> None,
     touch_state |-> [action |-> "Tap",
                      last_time |-> 0,
                      last_position |-> Position(0, 0),
                      last_motion_position |-> Position(0, 0),
                      start_byte_index |-> 0],
     preedit |-> <<<<>>, 0, 0>>,
     submit_handler |-> "noop",
     submitted |-> <<>>,
     change_cause |-> "Other",
     width |-> 0,
     scale |-> 1,
     text_input_dirty |-> TRUE,
     focused |-> FALSE,
     dirty |-> TRUE,
     panicked |-> FALSE]

\* Option<TextInput>: `present` is Some, `enabled` the wrapper's flag and
\* `requests` the requests the wrapper forwarded to the protocol object
\* during the latest update_text_input.  The protocol object's side of the
\* wrapper is `forwarded`, the latest of enable and disable it was sent
\* ("None" before the first), and `out_of_turn`, whether it was ever sent an
\* enable right after an enable, or a disable not right after an enable.
TextInput_none ==
    [present |-> FALSE, enabled |-> FALSE, requests |-> <<>>,
     forwarded |-> "None", out_of_turn |-> FALSE]
TextInput_from ==
    [present |-> TRUE, enabled |-> FALSE, requests |-> <<>>,
     forwarded |-> "None", out_of_turn |-> FALSE]

\* Window::new, which installs the handler that connects with the password.
Window_new ==
    [password_field |-> set_submit_handler(TextField_new, "connect")[1],
     touch_state |-> [action |-> "None",
                      entry |-> 0,
                      start |-> Position(0, 0),
                      position |-> Position(0, 0)],
     access_points |-> <<>>,
     view |-> List,
     size |-> DEFAULT_WIDTH,
     scale |-> 1,
     stalled |-> TRUE,
     dirty |-> TRUE,
     initial_configure_done |-> FALSE,
     text_input |-> TextInput_none,
     ime_cause |-> "None",
     spawned |-> <<>>,
     frames |-> 0]

Init ==
    /\ window = Window_new
    /\ touching = FALSE
    /\ clock = 0
    /\ pasting = FALSE

\* Window::password_field_size().width
password_field_width(w) == (w.size - 2 * OUTSIDE_PADDING) * w.scale

\* rect_contains(password_field_position, password_field_size, position),
\* for a position relative to the field's origin.
in_password_field(w, position) ==
    /\ 0 <= position.x
    /\ position.x < password_field_width(w)
    /\ 0 <= position.y
    /\ position.y < INPUT_HEIGHT * w.scale

\* Window::connect_button_size().width, which is also the width of the
\* "disconnect" button: 0.4 of the logical width, rounded.
connect_button_width(w) == ((4 * w.size + 5) \div 10) * w.scale

\* rect_contains(connect_button_position, connect_button_size, position),
\* for a position relative to the field's origin: the button is centred,
\* BUTTON_PADDING below the field.
in_connect_button(w, position) ==
    LET x == (w.size * w.scale - connect_button_width(w) + 1) \div 2
                - OUTSIDE_PADDING * w.scale
        y == (INPUT_HEIGHT + BUTTON_PADDING) * w.scale
    IN  /\ x <= position.x
        /\ position.x < x + connect_button_width(w)
        /\ y <= position.y
        /\ position.y < y + BUTTON_HEIGHT * w.scale

\* rect_contains(disconnect_button_position, disconnect_button_size,
\* position): the button is at the right edge, beside the connect button.
in_disconnect_button(w, position) ==
    LET x == w.size * w.scale - connect_button_width(w)
                - 2 * OUTSIDE_PADDING * w.scale
        y == (INPUT_HEIGHT + BUTTON_PADDING) * w.scale
    IN  /\ x <= position.x
        /\ position.x < x + connect_button_width(w)
        /\ y <= position.y
        /\ position.y < y + BUTTON_HEIGHT * w.scale

\* Window::entry_at: the list of access points lies above the place of the
\* password field, and a position in it is on the bottom entry.
ListBottom == -100

entry_at(w, position) ==
    IF position.y < ListBottom * w.scale
    THEN <<Max(Len(w.access_points) - 1, 0)>>
    ELSE None

\* ZwpTextInputV3::enable and ::disable, as the protocol object receives
\* them.
send_enable(text_input) ==
    [text_input EXCEPT !.requests = @ \o <<<<"enable">>>>,
                       !.out_of_turn = @ \/ text_input.forwarded = "enable",
                       !.forwarded = "enable"]

send_disable(text_input) ==
    [text_input EXCEPT !.requests = @ \o <<<<"disable">>>>,
                       !.out_of_turn = @ \/ text_input.forwarded # "enable",
                       !.forwarded = "disable"]

\* An enable that is not debounced.
TextInput_enable_always(text_input) ==
    send_enable([text_input EXCEPT !.enabled = TRUE])

\* TextInput::enable.
TextInput_enable(text_input) ==
    IF text_input.enabled THEN text_input
    ELSE send_enable([text_input EXCEPT !.enabled = TRUE])

\* TextInput::disable.
TextInput_disable(text_input) ==
    IF ~text_input.enabled THEN text_input
    ELSE [send_disable([text_input EXCEPT !.enabled = FALSE])
            EXCEPT !.requests = @ \o <<<<"commit">>>>]

\* An update_text_input that takes the pending cause before it looks at the
\* focus.
update_text_input_taking_cause(w) ==
    LET f == w.password_field
        text_input == [w.text_input EXCEPT !.requests = <<>>]
        surrounding == surrounding_text(f)
        cause == IF w.ime_cause = "None" THEN "InputMethod" ELSE w.ime_cause
    IN  IF ~w.text_input.present THEN w
        ELSE IF ~f.focused
        THEN [w EXCEPT !.text_input = TextInput_disable(text_input), !.ime_cause = "None"]
        ELSE IF surrounding_text_panics(f) THEN [w EXCEPT !.password_field = Panic(f)]
        ELSE [w EXCEPT
                !.text_input =
                    [TextInput_enable(text_input) EXCEPT !.requests = @ \o
                        <<<<"set_surrounding_text", surrounding.text,
                            surrounding.cursor_start, surrounding.cursor_end>>,
                          <<"set_text_change_cause", cause>>,
                          <<"set_content_type", "SensitiveData", "Password">>,
                          <<"set_cursor_rectangle", cursor_rect(f)>>,
                          <<"commit">>>>],
                !.ime_cause = "None"]

\* An update_text_input that commits the enable before the properties.
update_text_input_committing_enable(w) ==
    LET f == w.password_field
        text_input == [w.text_input EXCEPT !.requests = <<>>]
        enabled == TextInput_enable(text_input)
        surrounding == surrounding_text(f)
        cause == IF w.ime_cause = "None" THEN "InputMethod" ELSE w.ime_cause
    IN  IF ~w.text_input.present THEN w
        ELSE IF ~f.focused THEN [w EXCEPT !.text_input = TextInput_disable(text_input)]
        ELSE IF surrounding_text_panics(f) THEN [w EXCEPT !.password_field = Panic(f)]
        ELSE [w EXCEPT
                !.text_input =
                    [enabled EXCEPT !.requests =
                        (IF enabled.requests = <<>> THEN <<>>
                         ELSE enabled.requests \o <<<<"commit">>>>) \o
                        <<<<"set_surrounding_text", surrounding.text,
                            surrounding.cursor_start, surrounding.cursor_end>>,
                          <<"set_text_change_cause", cause>>,
                          <<"set_content_type", "SensitiveData", "Password">>,
                          <<"set_cursor_rectangle", cursor_rect(f)>>,
                          <<"commit">>>>],
                !.ime_cause = "None"]

\* An update_text_input that reads the pending cause without taking it.
update_text_input_keeping_cause(w) ==
    LET f == w.password_field
        text_input == [w.text_input EXCEPT !.requests = <<>>]
        surrounding == surrounding_text(f)
        cause == IF w.ime_cause = "None" THEN "InputMethod" ELSE w.ime_cause
    IN  IF ~w.text_input.present THEN w
        ELSE IF ~f.focused THEN [w EXCEPT !.text_input = TextInput_disable(text_input)]
        ELSE IF surrounding_text_panics(f) THEN [w EXCEPT !.password_field = Panic(f)]
        ELSE [w EXCEPT
                !.text_input =
                    [TextInput_enable(text_input) EXCEPT !.requests = @ \o
                        <<<<"set_surrounding_text", surrounding.text,
                            surrounding.cursor_start, surrounding.cursor_end>>,
                          <<"set_text_change_cause", cause>>,
                          <<"set_content_type", "SensitiveData", "Password">>,
                          <<"set_cursor_rectangle", cursor_rect(f)>>,
                          <<"commit">>>>]]

\* Window::update_text_input.
update_text_input(w) ==
    LET f == w.password_field
        text_input == [w.text_input EXCEPT !.requests = <<>>]
        surrounding == surrounding_text(f)
        cause == IF w.ime_cause = "None" THEN "InputMethod" ELSE w.ime_cause
    IN  IF ~w.text_input.present THEN w
        ELSE IF ~f.focused THEN [w EXCEPT !.text_input = TextInput_disable(text_input)]
        ELSE IF surrounding_text_panics(f) THEN [w EXCEPT !.password_field = Panic(f)]
        ELSE [w EXCEPT
                !.text_input =
                    [TextInput_enable(text_input) EXCEPT !.requests = @ \o
                        <<<<"set_surrounding_text", surrounding.text,
                            surrounding.cursor_start, surrounding.cursor_end>>,
                          <<"set_text_change_cause", cause>>,
                          <<"set_content_type", "SensitiveData", "Password">>,
                          <<"set_cursor_rectangle", cursor_rect(f)>>,
                          <<"commit">>>>],
                !.ime_cause = "None"]

\* Window::dirty.
Window_dirty(w) ==
    \/ w.dirty
    \/ /\ w.view.details
       /\ w.password_field.dirty
       /\ w.view.access_point.private
       /\ ~w.view.access_point.saved

\* Window::draw.  Rendering takes the password field's texture, which
\* redraws it and resets its dirty flag; a frame callback is requested
\* (`frames` counts the callbacks requested and not yet delivered).
draw(w) ==
    IF ~Window_dirty(w) THEN [w EXCEPT !.stalled = TRUE]
    ELSE LET drawn == [w EXCEPT !.initial_configure_done = TRUE, !.dirty = FALSE,
                                !.frames = @ + 1]
             flushed ==
                IF drawn.password_field.text_input_dirty
                THEN update_text_input(
                        [drawn EXCEPT !.password_field.text_input_dirty = FALSE])
                ELSE drawn
         IN  IF /\ flushed.view.details
                /\ ~flushed.view.access_point.connected
                /\ ~flushed.view.access_point.saved
                /\ flushed.view.access_point.private
             THEN [flushed EXCEPT !.password_field.dirty = FALSE]
             ELSE flushed

\* An unstall that draws whether or not a frame is pending.
unstall_always(w) == draw([w EXCEPT !.stalled = FALSE])

\* Window::unstall.
unstall(w) == IF ~w.stalled THEN w ELSE draw([w EXCEPT !.stalled = FALSE])

\* A panic ends the program: no handler runs after it.
Running == ~window.password_field.panicked

\* CompositorHandler::frame: the frame callback requested by the latest
\* draw that rendered arrives.
Frame ==
    /\ Running
    /\ window.frames > 0
    /\ window' = draw([window EXCEPT !.frames = @ - 1])
    /\ UNCHANGED <<touching, clock, pasting>>

\* Window::set_access_points.
SetAccessPoints(access_points) ==
    /\ Running
    /\ window' = unstall([window EXCEPT !.access_points = access_points, !.dirty = TRUE])
    /\ UNCHANGED <<touching, clock, pasting>>

\* Window::set_size(Some(width x height)) with a new size.
SetSize(width) ==
    /\ Running
    /\ width # window.size
    /\ LET sized == [window EXCEPT !.size = width, !.dirty = TRUE]
       IN  window' = unstall(
            [sized EXCEPT !.password_field = set_width(@, password_field_width(sized))])
    /\ UNCHANGED <<touching, clock, pasting>>

\* Window::set_size(None): a configure event without dimensions.
SetSizeNone ==
    /\ Running
    /\ ~window.initial_configure_done
    /\ LET sized == [window EXCEPT !.dirty = TRUE]
       IN  window' = unstall(
            [sized EXCEPT !.password_field = set_width(@, password_field_width(sized))])
    /\ UNCHANGED <<touching, clock, pasting>>

\* Window::set_scale_factor.
SetScaleFactor(scale) ==
    /\ Running
    /\ scale # window.scale
    /\ window' = unstall(
        [window EXCEPT !.scale = scale,
                       !.dirty = TRUE,
                       !.password_field = set_scale(@, scale)])
    /\ UNCHANGED <<touching, clock, pasting>>

\* Window::touch_down, at a physical position relative to the origin of the
\* password field.
TouchDown(time, position) ==
    /\ Running
    /\ ~touching
    /\ time >= clock
    /\ touching' = TRUE
    /\ clock' = time
    /\ LET touched == [window EXCEPT !.touch_state.position = position,
                                     !.touch_state.start = position]
       IN  window' = unstall(
            IF touched.view.details /\ in_password_field(touched, position)
            THEN [touched EXCEPT
                    !.password_field = set_focused(touch_down(@, time, position), TRUE),
                    !.touch_state.action = "PasswordInput",
                    !.ime_cause = "Other"]
            ELSE IF /\ touched.view.details
                    /\ ~touched.view.access_point.connected
                    /\ in_connect_button(touched, position)
                            \/ touched.view.access_point.saved
                    /\ in_disconnect_button(touched, position)
                            \/ ~touched.view.access_point.saved
            THEN [touched EXCEPT
                    !.password_field = set_focused(@, FALSE),
                    !.touch_state.action = "ConnectTap"]
            ELSE IF ~touched.view.details /\ entry_at(touched, position) # None
            THEN [touched EXCEPT
                    !.password_field = set_focused(@, FALSE),
                    !.touch_state.action = "EntryTap",
                    !.touch_state.entry = entry_at(touched, position)[1]]
            ELSE [touched EXCEPT
                    !.password_field = set_focused(@, FALSE),
                    !.touch_state.action = "None"])
    /\ UNCHANGED pasting

\* Window::touch_motion.
TouchMotion(position) ==
    /\ Running
    /\ touching
    /\ LET moved == [window EXCEPT !.touch_state.position = position]
           delta == Position(position.x - window.touch_state.start.x,
                             position.y - window.touch_state.start.y)
       IN  window' =
            IF window.touch_state.action = "PasswordInput"
            THEN unstall([moved EXCEPT !.password_field = touch_motion(@, position),
                                       !.ime_cause = "Other"])
            ELSE IF /\ window.touch_state.action \in {"EntryTap", "EntryDrag"}
                    /\ delta.x * delta.x + delta.y * delta.y > max_tap_distance
            THEN unstall([moved EXCEPT !.touch_state.action = "EntryDrag"])
            ELSE moved
    /\ UNCHANGED <<touching, clock, pasting>>

\* The future that the ConnectTap arm of Window::touch_up spawns, as the
\* D-Bus call it makes.
connect_request(access_point, password) ==
    IF access_point.saved THEN <<"reconnect">>
    ELSE IF access_point.private \/ password = <<>> THEN <<"connect", None>>
    ELSE <<"connect", <<password>>>>

\* Window::touch_up; `spawned` holds the D-Bus calls of the latest release.
TouchUp ==
    /\ Running
    /\ touching
    /\ touching' = FALSE
    /\ LET w == [window EXCEPT !.spawned = <<>>]
       IN  window' =
            IF w.view.details /\ w.touch_state.action = "ConnectTap"
            THEN IF \/ /\ w.view.access_point.saved
                       /\ in_disconnect_button(w, w.touch_state.position)
                    \/ /\ ~w.view.access_point.saved
                       /\ in_connect_button(w, w.touch_state.position)
                 THEN [w EXCEPT !.spawned =
                        <<connect_request(w.view.access_point, w.password_field.text)>>]
                 ELSE w
            ELSE IF /\ w.view.details
                    /\ w.touch_state.action = "PasswordInput"
                    /\ in_password_field(w, w.touch_state.position)
            THEN unstall([w EXCEPT !.ime_cause = "Other",
                                   !.password_field = touch_up(@)])
            ELSE IF /\ ~w.view.details
                    /\ w.touch_state.action = "EntryTap"
                    /\ w.touch_state.entry < Len(w.access_points)
            THEN unstall(
                    [w EXCEPT
                        !.view = Details(w.access_points[w.touch_state.entry + 1]),
                        !.dirty = TRUE])
            ELSE w
    /\ UNCHANGED <<clock, pasting>>

\* The paste keys of TextField::press_key, which ask the clipboard for text.
is_paste_key(keysym, modifiers) ==
    /\ ~modifiers.logo
    /\ ~modifiers.alt
    /\ keysym = "XF86_Paste" \/ (keysym = "V" /\ modifiers.shift /\ modifiers.ctrl)

\* Window::press_key.
PressKey(keysym, modifiers) ==
    /\ Running
    /\ window.password_field.focused
    /\ window' = unstall([window EXCEPT !.ime_cause = "Other",
                                        !.password_field = press_key(@, keysym, modifiers)])
    /\ pasting' = (pasting \/ is_paste_key(keysym, modifiers))
    /\ UNCHANGED <<touching, clock>>

\* Window::paste: the clipboard's text arrives.
Paste(text) ==
    /\ Running
    /\ pasting
    /\ pasting' = FALSE
    /\ window' = unstall([window EXCEPT !.password_field = paste(@, text)])
    /\ UNCHANGED <<touching, clock>>

\* Window::text_input_enter.
TextInputEnter ==
    /\ Running
    /\ window' = unstall(update_text_input([window EXCEPT !.text_input = TextInput_from]))
    /\ UNCHANGED <<touching, clock, pasting>>

\* Window::text_input_leave.
TextInputLeave ==
    /\ Running
    /\ window' = unstall([window EXCEPT !.text_input = TextInput_none])
    /\ UNCHANGED <<touching, clock, pasting>>

\* Window::commit_string.
CommitString(text) ==
    /\ Running
    /\ window' = unstall([window EXCEPT !.password_field = commit_string(@, text)])
    /\ UNCHANGED <<touching, clock, pasting>>

\* Window::delete_surrounding_text.
DeleteSurroundingText(before_length, after_length) ==
    /\ Running
    /\ window' = unstall(
        [window EXCEPT !.password_field =
            delete_surrounding_text(@, before_length, after_length)])
    /\ UNCHANGED <<touching, clock, pasting>>

\* Window::set_preedit_string.
SetPreeditString(text, cursor_begin, cursor_end) ==
    /\ Running
    /\ window' = unstall(
        [window EXCEPT !.password_field =
            set_preedit_string(@, text, cursor_begin, cursor_end)])
    /\ UNCHANGED <<touching, clock, pasting>>

\* TextField::set_submit_handler, called on the window's password field.
SetSubmitHandler(handler) ==
    /\ Running
    /\ window' = [window EXCEPT !.password_field = set_submit_handler(@, handler)[1]]
    /\ UNCHANGED <<touching, clock, pasting>>

\* ---------------------------------------------------------- specifications
\* The compositor delivers input once it has configured the window, and
\* input-method events while the text input is enabled.
Configured == window.size # DEFAULT_WIDTH
ImeEnabled == window.text_input.present /\ window.text_input.enabled

\* The access point of the model: private, without a saved profile.
PrivateAccessPoint == AccessPoint(TRUE, FALSE, FALSE)

\* Inputs of the editing specification.
Keys ==
    {<<k, NoModifiers>> :
        k \in {"Return", "Left", "Right", "BackSpace", "Delete", "XF86_Copy",
               "a", "space", "eacute", "periodcentered", "Shift_L"}}
    \cup {<<"Left", Modifiers(TRUE, FALSE, FALSE, FALSE)>>,
          <<"a", Modifiers(FALSE, FALSE, TRUE, FALSE)>>,
          <<"V", Modifiers(TRUE, TRUE, FALSE, FALSE)>>}

Preedits == {<<<<>>, 0, 0>>, <<CharA, 0, 1>>}

MaxDelete == 2

\* Width the compositor configures the window with: the field is
\* SmallWidth - 2 * OUTSIDE_PADDING pixels wide, two and a half characters.
SmallWidth == 70

\* Touch positions relative to the field's origin: over the second character
\* of the text, in the empty part of the window, and in the list.
TapPosition == Position(40, 0)
OutsidePosition == Position(16, -30)
EntryPosition == Position(16, -300)

\* The text stays within MaxBytes bytes.
Bounded == Len(window'.password_field.text) <= MaxBytes

Next ==
    \/ SetSize(SmallWidth)
    \/ Configured /\ window.access_points = <<>> /\ SetAccessPoints(<<PrivateAccessPoint>>)
    \/ Configured /\ \E p \in {TapPosition, OutsidePosition, EntryPosition} : TouchDown(0, p)
    \/ TouchUp
    \/ Frame
    \/ \E k \in Keys : PressKey(k[1], k[2]) /\ Bounded
    \/ \E c \in Chars : Paste(c) /\ Bounded

Spec == Init /\ [][Next]_vars

\* The input-method specification: the field is edited by the input method,
\* which commits characters of one and of two bytes.
ImeChars == {CharSpace, CharEAcute}

\* Longest buffer, in bytes, that the input method builds.
MaxImeBytes == 2

NextIme ==
    \/ SetSize(SmallWidth)
    \/ Configured /\ window.access_points = <<>> /\ SetAccessPoints(<<PrivateAccessPoint>>)
    \/ Configured /\ \E p \in {TapPosition, OutsidePosition, EntryPosition} : TouchDown(0, p)
    \/ TouchUp
    \/ Frame
    \/ ~window.text_input.present /\ TextInputEnter
    \/ ImeEnabled /\ \E c \in ImeChars :
            CommitString(c) /\ Len(window'.password_field.text) <= MaxImeBytes
    \/ ImeEnabled /\ \E b \in 0..MaxDelete, a \in 0..MaxDelete : DeleteSurroundingText(b, a)
    \/ ImeEnabled /\ \E p \in Preedits : SetPreeditString(p[1], p[2], p[3])

SpecIme == Init /\ [][NextIme]_vars

\* The tap specification: a text is pasted into the empty field and then
\* tapped at the boundaries between its characters, at increasing times.
TapWidth == 120

\* "aa a", "a aa" and "<middle dot>aa".
TapTexts ==
    {CharA \o CharA \o CharSpace \o CharA,
     CharA \o CharSpace \o CharA \o CharA,
     CharMidDot \o CharA \o CharA}

PasteKey == <<"V", Modifiers(TRUE, TRUE, FALSE, FALSE)>>

\* The position over the boundary before character number c of the text.
BoundaryPosition(c) == Position(PADDING + c * CharPx, 0)

TapPositions == {BoundaryPosition(c) : c \in 0..4} \cup {OutsidePosition, EntryPosition}

Times == {0, 250, 400, 500}

Empty == window.password_field.text = <<>>

NextTap ==
    \/ SetSize(TapWidth)
    \/ Configured /\ window.access_points = <<>> /\ SetAccessPoints(<<PrivateAccessPoint>>)
    \/ Configured /\ \E t \in Times, p \in TapPositions : TouchDown(t, p)
    \/ TouchUp
    \/ Frame
    \/ Empty /\ ~pasting /\ PressKey(PasteKey[1], PasteKey[2])
    \/ Empty /\ \E text \in TapTexts : Paste(text)

SpecTap == Init /\ [][NextTap]_vars

\* The drag specification: the pasted text is tapped and dragged over.
DragTexts == {CharA \o CharA \o CharSpace \o CharA, CharA \o CharSpace \o CharA \o CharA}

DragPositions == {BoundaryPosition(c) : c \in 0..4}

NextDrag ==
    \/ SetSize(TapWidth)
    \/ Configured /\ window.access_points = <<>> /\ SetAccessPoints(<<PrivateAccessPoint>>)
    \/ Configured /\ \E p \in DragPositions \cup {EntryPosition} : TouchDown(0, p)
    \/ \E p \in DragPositions : TouchMotion(p)
    \/ TouchUp
    \/ Frame
    \/ Empty /\ ~pasting /\ PressKey(PasteKey[1], PasteKey[2])
    \/ Empty /\ \E text \in DragTexts : Paste(text)

SpecDrag == Init /\ [][NextDrag]_vars

\* The round-trip specification: the pasted text is tapped, which selects
\* in it, and the bytes of the selection are pasted over the selection.
Selected ==
    LET f == window.password_field
    IN  [i \in 1..(f.selection[2] - f.selection[1]) |-> f.text[f.selection[1] + i]]

NextRound ==
    \/ SetSize(TapWidth)
    \/ Configured /\ window.access_points = <<>> /\ SetAccessPoints(<<PrivateAccessPoint>>)
    \/ Configured /\ \E p \in TapPositions : TouchDown(0, p)
    \/ TouchUp
    \/ Frame
    \/ ~pasting /\ PressKey(PasteKey[1], PasteKey[2])
    \/ Empty /\ \E text \in TapTexts : Paste(text)
    \/ window.password_field.selection # None /\ Paste(Selected)

SpecRound == Init /\ [][NextRound]_vars

\* The change-cause specification: the field is edited from the keyboard,
\* the clipboard and the input method.
CauseKeys ==
    {<<"a", NoModifiers>>, <<"Shift_L", NoModifiers>>, <<"Return", NoModifiers>>, PasteKey}

\* Longest buffer, in bytes, of the change-cause specification.
MaxCauseBytes == 1

CauseBounded == Len(window'.password_field.text) <= MaxCauseBytes

NextCause ==
    \/ SetSize(SmallWidth)
    \/ Configured /\ window.access_points = <<>> /\ SetAccessPoints(<<PrivateAccessPoint>>)
    \/ Configured /\ \E p \in {TapPosition, OutsidePosition, EntryPosition} : TouchDown(0, p)
    \/ TouchUp
    \/ Frame
    \/ ~window.text_input.present /\ TextInputEnter
    \/ \E k \in CauseKeys : PressKey(k[1], k[2]) /\ CauseBounded
    \/ Paste(CharA) /\ CauseBounded
    \/ ImeEnabled /\ CommitString(CharSpace) /\ CauseBounded
    \/ ImeEnabled /\ DeleteSurroundingText(1, 0)
    \/ ImeEnabled /\ \E p \in Preedits : SetPreeditString(p[1], p[2], p[3])

SpecCause == Init /\ [][NextCause]_vars

\* The scroll specification: single characters are typed into the field and
\* the cursor is moved over them.
ScrollKeys == {"a", "eacute", "Left", "Right", "BackSpace"}

NextScroll ==
    \/ SetSize(SmallWidth)
    \/ Configured /\ window.access_points = <<>> /\ SetAccessPoints(<<PrivateAccessPoint>>)
    \/ Configured /\ \E p \in {TapPosition, EntryPosition} : TouchDown(0, p)
    \/ TouchUp
    \/ Frame
    \/ \E k \in ScrollKeys : PressKey(k, NoModifiers) /\ Bounded

SpecScroll == Init /\ [][NextScroll]_vars

\* The flush specification: the text input enters and leaves, the field is
\* focused and blurred, and the input method edits it.
MaxFlushBytes == 1

NextFlush ==
    \/ SetSize(SmallWidth)
    \/ Configured /\ window.access_points = <<>> /\ SetAccessPoints(<<PrivateAccessPoint>>)
    \/ Configured /\ \E p \in {TapPosition, OutsidePosition, EntryPosition} : TouchDown(0, p)
    \/ TouchUp
    \/ Frame
    \/ ~window.text_input.present /\ TextInputEnter
    \/ window.text_input.present /\ TextInputLeave
    \/ ImeEnabled /\ CommitString(CharSpace)
            /\ Len(window'.password_field.text) <= MaxFlushBytes
    \/ ImeEnabled /\ DeleteSurroundingText(1, 0)
    \/ ImeEnabled /\ SetPreeditString(CharA, 0, 1)

SpecFlush == Init /\ [][NextFlush]_vars

\* The submit specification: the field is typed into and submitted, and its
\* submit handler is replaced.  Window::new is the one caller of
\* set_submit_handler in the program; the specification exercises it as the
\* public operation of the field it is.
Handlers == {"noop", "connect", "log"}

SubmitKeys ==
    {<<"a", NoModifiers>>, <<"Return", NoModifiers>>,
     <<"Return", Modifiers(TRUE, FALSE, FALSE, FALSE)>>,
     <<"Return", Modifiers(FALSE, FALSE, FALSE, TRUE)>>}

\* Longest buffer, in bytes, of the submit specification.
MaxSubmitBytes == 1

NextSubmit ==
    \/ SetSize(SmallWidth)
    \/ Configured /\ window.access_points = <<>> /\ SetAccessPoints(<<PrivateAccessPoint>>)
    \/ Configured /\ \E p \in {TapPosition, OutsidePosition, EntryPosition} : TouchDown(0, p)
    \/ TouchUp
    \/ Frame
    \/ \E k \in SubmitKeys :
            PressKey(k[1], k[2]) /\ Len(window'.password_field.text) <= MaxSubmitBytes
    \/ \E h \in Handlers \ {window.password_field.submit_handler} : SetSubmitHandler(h)

SpecSubmit == Init /\ [][NextSubmit]_vars

\* The quiescence specification: once the text input has entered, the
\* window is touched and typed into while it shows the list or the details
\* of an access point of any kind; every frame callback that was requested
\* is delivered, and from some moment on nothing but frame callbacks
\* arrives.
AccessPointKinds ==
    {AccessPoint(TRUE, FALSE, FALSE), AccessPoint(FALSE, FALSE, FALSE),
     AccessPoint(TRUE, TRUE, FALSE)}

NextQuiet ==
    \/ SetSize(SmallWidth)
    \/ Configured /\ window.access_points = <<>>
            /\ \E access_point \in AccessPointKinds : SetAccessPoints(<<access_point>>)
    \/ ~window.text_input.present /\ TextInputEnter
    \/ Configured /\ window.text_input.present
            /\ \E p \in {TapPosition, OutsidePosition, EntryPosition} : TouchDown(0, p)
    \/ TouchUp
    \/ Frame
    \/ window.text_input.present /\ PressKey("a", NoModifiers) /\ CauseBounded

SpecQuiet == Init /\ [][NextQuiet]_vars /\ WF_vars(Frame) /\ <>[][Frame]_vars

\* The connect specification: the details of an access point of any kind
\* are opened, a password is typed or not, and the buttons below the field
\* are touched and released, on the button or after the touch moved off it.
MaxConnectBytes == 1
ConnectPosition == Position(120, 70)
DisconnectPosition == Position(300, 70)

NextConnect ==
    \/ SetSize(DEFAULT_WIDTH - 10)
    \/ Configured /\ window.access_points = <<>>
            /\ \E access_point \in AccessPointKinds : SetAccessPoints(<<access_point>>)
    \/ Configured
            /\ \E p \in {TapPosition, EntryPosition, ConnectPosition, DisconnectPosition} :
                    TouchDown(0, p)
    \/ \E p \in {ConnectPosition, OutsidePosition} : TouchMotion(p)
    \/ TouchUp
    \/ Frame
    \/ PressKey("a", NoModifiers)
            /\ Len(window'.password_field.text) <= MaxConnectBytes

SpecConnect == Init /\ [][NextConnect]_vars

\* The cursor-rectangle specification: the text input has entered, and
\* characters are typed into the field, which is narrower than three of
\* them, and the cursor is moved over them.
MaxRectBytes == 3
RectKeys == {"a", "Left", "Right"}

NextRect ==
    \/ SetSize(SmallWidth)
    \/ Configured /\ window.access_points = <<>> /\ SetAccessPoints(<<PrivateAccessPoint>>)
    \/ ~window.text_input.present /\ TextInputEnter
    \/ Configured /\ window.text_input.present
            /\ \E p \in {TapPosition, EntryPosition} : TouchDown(0, p)
    \/ TouchUp
    \/ Frame
    \/ \E k \in RectKeys : PressKey(k, NoModifiers)
            /\ Len(window'.password_field.text) <= MaxRectBytes

SpecRect == Init /\ [][NextRect]_vars

\* The interleaving specification: the input method commits "a a" to the
\* empty field, which is tapped and double-tapped at its last word; the
\* input method deletes before the cursor and the cursor keys are pressed.
MixedText == CharA \o CharSpace \o CharA
MixedKeys == {"Left", "Right"}
MixedPositions == {BoundaryPosition(3), EntryPosition}

NextMixed ==
    \/ SetSize(TapWidth)
    \/ Configured /\ window.access_points = <<>> /\ SetAccessPoints(<<PrivateAccessPoint>>)
    \/ ~window.text_input.present /\ TextInputEnter
    \/ Configured /\ window.text_input.present
            /\ \E p \in MixedPositions : TouchDown(0, p)
    \/ TouchUp
    \/ Frame
    \/ Empty /\ ImeEnabled /\ CommitString(MixedText)
    \/ \E k \in MixedKeys : PressKey(k, NoModifiers)
    \/ ImeEnabled /\ \E b \in 1..MaxDelete : DeleteSurroundingText(b, 0)

SpecMixed == Init /\ [][NextMixed]_vars

\* The surrounding-text specification: long buffers, with the cursor at
\* sampled character boundaries, are reported to the input method.
AllA == [i \in 1..BigLen |-> 97]

\* n times U+00E9.
EAcutes(n) == [i \in 1..(2 * n) |-> IF i % 2 = 1 THEN 195 ELSE 169]

\* BigLen bytes: `lead` times U+00E9, an 'a', and U+00E9 up to the length
\* (with an 'a' at the end where one byte is left).
LongText(lead) ==
    LET rest == BigLen - 2 * lead - 1
    IN  EAcutes(lead) \o CharA \o EAcutes(rest \div 2)
            \o (IF rest % 2 = 1 THEN CharA ELSE <<>>)

BigTexts == {AllA, LongText(2000), LongText(3000)}

CursorSamples == {0, 1999, 2000, 4001, 5000, 5001, 8001, BigLen}

\* The field after the text was pasted into it and the cursor was moved to
\* byte offset `cursor` by presses of Left; select_all is what a triple tap
\* leaves.
LongField(text, cursor, selected) ==
    LET sized == set_focused(set_width(Window_new.password_field, SmallWidth - 2 * OUTSIDE_PADDING), TRUE)
        pasted == paste(sized, text)
        moved == IF cursor = Len(text) THEN pasted
                 ELSE update_scroll_offset(
                        [pasted EXCEPT !.cursor_index = cursor, !.cursor_offset = 0])
        f == IF selected THEN select_all(moved) ELSE moved
    IN  [f EXCEPT !.dirty = FALSE, !.text_input_dirty = FALSE]

\* The window showing that field, after its latest frame.
LongWindow(text, cursor, selected) ==
    [Window_new EXCEPT
        !.password_field = LongField(text, cursor, selected),
        !.access_points = <<PrivateAccessPoint>>,
        !.view = Details(PrivateAccessPoint),
        !.size = SmallWidth,
        !.dirty = FALSE,
        !.initial_configure_done = TRUE]

InitSurround ==
    /\ \E text \in BigTexts, selected \in BOOLEAN :
        \E cursor \in {c \in CursorSamples : is_char_boundary(text, c)} :
            window = LongWindow(text, cursor, selected)
    /\ touching = FALSE
    /\ clock = 0
    /\ pasting = FALSE

AtSample == cursor_index(window.password_field) \in CursorSamples

NextSurround ==
    \/ ~window.text_input.present /\ TextInputEnter
    \/ Frame
    \/ AtSample /\ \E k \in {"Left", "Right"} : PressKey(k, NoModifiers)

SpecSurround == InitSurround /\ [][NextSurround]_vars

\* -------------------------------------------------------------- properties
field == window.password_field

\* C1: after any sequence of operations the cursor byte index and both
\* bounds of an active selection are on character boundaries of the buffer.
IndicesOnCharBoundaries ==
    Running =>
        /\ is_char_boundary(field.text, cursor_index(field))
        /\ field.selection # None =>
            /\ is_char_boundary(field.text, field.selection[1])
            /\ is_char_boundary(field.text, field.selection[2])

\* C2: in every reachable state an active selection [start, end) satisfies
\* 0 <= start < end <= length of the buffer.
SelectionWithinText ==
    Running /\ field.selection # None =>
        /\ 0 <= field.selection[1]
        /\ field.selection[1] < field.selection[2]
        /\ field.selection[2] <= Len(field.text)

\* C3: after every operation the scroll offset lies in
\* [-max(content width - viewport width, 0), 0] for the buffer as it is.
ScrollOffsetInRange ==
    Running =>
        /\ -Max(pixel_size(field.text, field.scale) - field.width, 0) <= field.scroll_offset
        /\ field.scroll_offset <= 0

\* A touch-down that the window hands to the focused field.
FocusedDown ==
    /\ ~touching
    /\ touching'
    /\ window'.touch_state.action = "PasswordInput"
    /\ field.focused

\* That touch-down is within the multi-tap interval and the tap distance of
\* the touch-down before it.
WithinMultiTap ==
    LET old == field.touch_state
        new == window'.password_field.touch_state
        dx == new.last_position.x - old.last_position.x
        dy == new.last_position.y - old.last_position.y
    IN  /\ new.last_time <= old.last_time + max_multi_tap
        /\ dx * dx + dy * dy <= max_tap_distance

\* C4: on a focused field a touch-down within the multi-tap interval and the
\* tap distance of a down classified Tap is a DoubleTap (downs at 0 and
\* 250 ms), the next such down a TripleTap (400 ms), and the one after it a
\* Tap again.
TapCycle ==
    [][FocusedDown /\ WithinMultiTap =>
        LET old == field.touch_state.action
            new == window'.password_field.touch_state.action
        IN  /\ old = "Tap" => new = "DoubleTap"
            /\ old = "DoubleTap" => new = "TripleTap"
            /\ old = "TripleTap" => new = "Tap"]_vars

\* The third down of the cycle, at 400 ms, is held as a TripleTap.
TripleTapReached ==
    /\ touching
    /\ clock = 400
    /\ field.touch_state.last_time = 400
    /\ field.touch_state.action = "TripleTap"

\* C5: on a focused field a touch-down later than the multi-tap interval
\* after the previous down, or farther from it than the tap distance, is a
\* Tap whatever the previous action was.
TapReset ==
    [][FocusedDown /\ ~WithinMultiTap =>
        window'.password_field.touch_state.action = "Tap"]_vars

\* A down at 500 ms on the focused field is held as a Tap.
LateTapReached ==
    /\ touching
    /\ window.touch_state.action = "PasswordInput"
    /\ field.focused
    /\ clock = 500
    /\ field.touch_state.last_time = 500
    /\ field.touch_state.action = "Tap"

\* The release of a DoubleTap inside the field.
DoubleTapRelease ==
    /\ touching
    /\ ~touching'
    /\ window.view.details
    /\ window.touch_state.action = "PasswordInput"
    /\ in_password_field(window, window.touch_state.position)
    /\ field.touch_state.action = "DoubleTap"

\* The byte index of that tap.
TapIndex ==
    LET hit == hit_test(field, field.touch_state.last_position)
    IN  cursor_byte_index(field, hit[1], hit[2])

SetMax(S) == CHOOSE x \in S : \A y \in S : y <= x
SetMin(S) == CHOOSE x \in S : \A y \in S : x <= y

\* The byte index right after the last non-alphanumeric character strictly
\* before p, 0 without one.
WordStartAt(text, p) ==
    LET delimiters == {i \in char_indices(text) : i < p /\ ~is_alphanumeric(text, i)}
    IN  IF delimiters = {} THEN 0 ELSE next_char(text, SetMax(delimiters))

\* The byte index of the first non-alphanumeric character at or after p, the
\* length of the text without one.
WordEndAt(text, p) ==
    LET delimiters == {i \in char_indices(text) : i >= p /\ ~is_alphanumeric(text, i)}
    IN  IF delimiters = {} THEN Len(text) ELSE SetMin(delimiters)

\* C6: the release of a DoubleTap at byte index p installs the selection
\* [s, e), s right after the last non-alphanumeric character strictly before
\* p and e the index of the first non-alphanumeric character at or after p.
DoubleTapSelectsDelimitedWord ==
    [][DoubleTapRelease /\ WordStartAt(field.text, TapIndex) < WordEndAt(field.text, TapIndex) =>
        window'.password_field.selection =
            Range(WordStartAt(field.text, TapIndex), WordEndAt(field.text, TapIndex))]_vars

SingleByte(text) == \A i \in 1..Len(text) : text[i] < 128

\* C7: a double tap whose byte index is strictly inside a word, after its
\* first character and before the delimiter that follows it, in a buffer of
\* single-byte characters, selects exactly that word.
DoubleTapInsideWord ==
    [][/\ DoubleTapRelease
       /\ SingleByte(field.text)
       /\ WordStartAt(field.text, TapIndex) < TapIndex
       /\ TapIndex < WordEndAt(field.text, TapIndex)
       => window'.password_field.selection =
            Range(WordStartAt(field.text, TapIndex), WordEndAt(field.text, TapIndex))]_vars

\* "a aa" was double-tapped at byte 3, inside its second word, which is
\* selected.
InsideWordSelected ==
    /\ ~touching
    /\ field.text = CharA \o CharSpace \o CharA \o CharA
    /\ field.touch_state.action = "DoubleTap"
    /\ field.touch_state.start_byte_index = 3
    /\ field.selection = Range(2, 4)

\* C8: when a dragged selection caret passes the opposite end of the
\* selection, the ends are swapped and the action flips between
\* DragSelectionEnd and DragSelectionStart, so that the end under the finger
\* is the one the gesture edits.
CaretOvertakeSwaps ==
    [][\A p \in DragPositions :
        LET pos == unpadded(field, p)
            action == TouchState_motion(field.touch_state, pos, field.selection)[1].action
            hit == hit_test(field, pos)
            byte_index == cursor_byte_index(field, hit[1], hit[2])
            after == window'.password_field
        IN  /\ TouchMotion(p)
            /\ window.touch_state.action = "PasswordInput"
            /\ field.selection # None
            => /\ action = "DragSelectionEnd" /\ byte_index < field.selection[1] =>
                    /\ after.selection = Range(byte_index, field.selection[1])
                    /\ after.touch_state.action = "DragSelectionStart"
               /\ action = "DragSelectionStart" /\ byte_index > field.selection[2] =>
                    /\ after.selection = Range(field.selection[2], byte_index)
                    /\ after.touch_state.action = "DragSelectionEnd"]_vars

\* The gesture began on the start caret, before the selection's present
\* start, and now drags the end: the caret has passed the opposite end.
CaretOvertaken ==
    /\ touching
    /\ field.selection # None
    /\ field.touch_state.action = "DragSelectionEnd"
    /\ field.touch_state.start_byte_index < field.selection[1]

\* C9: surrounding_text returns a contiguous window of the buffer that
\* contains the cursor, starts and ends on character boundaries, extends at
\* most half the budget after the cursor and is at most the budget long;
\* with the budget available on both sides of the cursor it is exactly the
\* budget long, or shorter only by the correction to a boundary.
SurroundingWindow ==
    LET surrounding == surrounding_text(field).text
        n == Len(surrounding)
        end == surrounding_end(field)
        start == end - n
        cursor == cursor_index(field)
    IN  Running =>
        /\ 0 <= start
        /\ surrounding = SubSeq(field.text, start + 1, end)
        /\ start <= cursor
        /\ cursor <= end
        /\ is_char_boundary(field.text, start)
        /\ is_char_boundary(field.text, end)
        /\ end - cursor <= MAX_SURROUNDING_BYTES \div 2
        /\ n <= MAX_SURROUNDING_BYTES
        /\ cursor >= MAX_SURROUNDING_BYTES /\ cursor + MAX_SURROUNDING_BYTES <= Len(field.text) =>
            \/ n = MAX_SURROUNDING_BYTES
            \/ /\ n >= MAX_SURROUNDING_BYTES - 6
               /\ \/ ~is_char_boundary(field.text, cursor + MAX_SURROUNDING_BYTES \div 2)
                  \/ ~is_char_boundary(field.text, end - MAX_SURROUNDING_BYTES)

\* The set_surrounding_text request of the latest flush, None without one.
SentSurroundingText ==
    LET requests == window.text_input.requests
        sent == {i \in 1..Len(requests) : requests[i][1] = "set_surrounding_text"}
    IN  IF sent = {} THEN None ELSE requests[CHOOSE i \in sent : TRUE]

\* With the cursor at byte 5000 of a buffer of 10000 bytes, a window of 4000
\* bytes was sent to the input method.
FullWindowSent ==
    /\ Len(field.text) = 10000
    /\ cursor_index(field) = 5000
    /\ SentSurroundingText # None
    /\ Len(SentSurroundingText[2]) = 4000

\* C10: the two offsets surrounding_text returns are the selection's start
\* and end, or twice the cursor byte index without a selection, minus the
\* byte offset at which the returned window starts in the buffer.
SurroundingOffsetsRelative ==
    LET surrounding == surrounding_text(field)
        start == surrounding_end(field) - Len(surrounding.text)
        cursor == cursor_index(field)
    IN  Running =>
        /\ field.selection = None =>
            /\ surrounding.cursor_start = cursor - start
            /\ surrounding.cursor_end = cursor - start
        /\ field.selection # None =>
            /\ surrounding.cursor_start = field.selection[1] - start
            /\ surrounding.cursor_end = field.selection[2] - start

\* With the cursor at byte 5000, a window corrected to start at byte 3000
\* was sent, with both offsets 2000.
RelativeOffsetsSent ==
    /\ Len(field.text) = 10000
    /\ cursor_index(field) = 5000
    /\ field.selection = None
    /\ SentSurroundingText # None
    /\ Len(SentSurroundingText[2]) = 3999
    /\ SentSurroundingText[3] = 2000
    /\ SentSurroundingText[4] = 2000

\* C11: deleting the active selection and pasting, at the cursor this leaves,
\* the text that was deleted yields the buffer as it was.
DeleteThenPasteRestores ==
    [][field.selection # None /\ Paste(Selected) =>
        /\ ~window'.password_field.panicked
        /\ window'.password_field.text = field.text]_vars

\* The field `g` with the selection, the scroll offset and the dirty flags
\* of the field `f`.
ButSelection(g, f) ==
    [g EXCEPT !.selection = f.selection,
              !.scroll_offset = f.scroll_offset,
              !.text_input_dirty = f.text_input_dirty,
              !.dirty = f.dirty]

\* C12: select and clear_selection change only the selection, the scroll
\* offset and the dirty flags: the buffer and the stored cursor are as
\* before, and select(..) followed by clear_selection leaves a field with
\* the buffer and cursor it had and no selection.
SelectKeepsTextAndCursor ==
    Running =>
        /\ \A s \in -1..(Len(field.text) + 1), e \in -1..(Len(field.text) + 1) :
            ButSelection(select(field, s, e), field) = field
        /\ ButSelection(clear_selection(field), field) = field
        /\ ButSelection(clear_selection(select_all(field)), field) = field
        /\ clear_selection(select_all(field)).selection = None

\* A triple tap has selected the whole of "aa a" and the cursor is where the
\* first tap put it, inside the text.
AllSelectedCursorInside ==
    /\ ~touching
    /\ field.touch_state.action = "TripleTap"
    /\ field.text = CharA \o CharA \o CharSpace \o CharA
    /\ field.selection = Range(0, 4)
    /\ cursor_index(field) = 1

\* Scroll offsets the field is given before update_scroll_offset.
ScrollSamples == {-100, -25, -10, -1, 0, 7, 100}

\* C13: with no selection and no preedit, and the content at least as wide
\* as the viewport, update_scroll_offset leaves the cursor's x relative to
\* the viewport within [0, width], whatever the scroll offset was.
CursorScrolledIntoView ==
    /\ Running
    /\ field.selection = None
    /\ field.preedit[1] = <<>>
    /\ pixel_size(field.text, field.scale) >= field.width
    => \A s \in ScrollSamples \cup {field.scroll_offset} :
        LET g == update_scroll_offset([field EXCEPT !.scroll_offset = s])
            x == cursor_pos(g.text, g.scale, cursor_index(g)) \div PANGO_SCALE
                    + g.scroll_offset
        IN  0 <= x /\ x <= g.width

\* Three characters were typed into the field of two and a half: the text
\* was scrolled to keep the cursor, at its end, at the right edge.
ScrolledToCursor ==
    /\ field.focused
    /\ field.selection = None
    /\ field.preedit[1] = <<>>
    /\ field.text = CharA \o CharA \o CharA
    /\ cursor_index(field) = 3
    /\ field.width = SmallWidth - 2 * OUTSIDE_PADDING
    /\ field.scroll_offset = field.width - pixel_size(field.text, field.scale)
    /\ field.scroll_offset < 0

\* C14: the enable and disable requests one wrapper forwards alternate and
\* start with an enable: the protocol object is never sent one out of turn,
\* the wrapper is enabled exactly when the latest it forwarded is an enable,
\* and enable() while enabled and disable() while disabled forward nothing.
EnableDisableAlternate ==
    LET text_input == window.text_input
    IN  /\ ~text_input.out_of_turn
        /\ text_input.enabled <=> text_input.forwarded = "enable"
        /\ text_input.enabled => TextInput_enable(text_input) = text_input
        /\ ~text_input.enabled => TextInput_disable(text_input) = text_input

\* The wrapper, enabled by an earlier flush, has flushed again: its latest
\* requests begin with the surrounding text, without an enable.
FlushedWhileEnabled ==
    /\ window.text_input.present
    /\ window.text_input.enabled
    /\ window.text_input.forwarded = "enable"
    /\ window.text_input.requests # <<>>
    /\ window.text_input.requests[1][1] = "set_surrounding_text"

\* C15: a flush while the field is not focused forwards nothing, or a
\* disable followed by a commit (when the wrapper was enabled), and leaves
\* the pending change cause as it was.
UnfocusedFlushOnlyDisables ==
    Running /\ ~field.focused =>
        LET flushed == update_text_input(window)
            requests == flushed.text_input.requests
        IN  /\ requests \in {<<>>, <<<<"disable">>, <<"commit">>>>}
            /\ requests # <<>> <=> window.text_input.enabled
            /\ flushed.ime_cause = window.ime_cause

\* The field lost the focus and the flush that followed disabled the text
\* input, with the change cause of the earlier touch still pending.
DisabledWithPendingCause ==
    /\ ~field.focused
    /\ ~field.text_input_dirty
    /\ window.text_input.present
    /\ window.text_input.requests = <<<<"disable">>, <<"commit">>>>
    /\ window.ime_cause = "Other"

\* The names of a sequence of requests.
RequestNames(requests) == [i \in 1..Len(requests) |-> requests[i][1]]

\* The property updates of a flush and the commit that ends it.
UpdateNames ==
    <<"set_surrounding_text", "set_text_change_cause", "set_content_type",
      "set_cursor_rectangle", "commit">>

\* C16: a flush while the field is focused and a text input is present
\* forwards enable (only when the wrapper was not enabled), then the
\* surrounding text, the change cause, the content type and the cursor
\* rectangle, and then one commit, the last request; every flush that was
\* performed forwarded that, a disable and its commit, or nothing.
FocusedFlushCommitsLast ==
    Running =>
        /\ RequestNames(window.text_input.requests) \in
            {<<>>, <<"disable", "commit">>, UpdateNames, <<"enable">> \o UpdateNames}
        /\ /\ field.focused
           /\ window.text_input.present
           /\ ~surrounding_text_panics(field)
           => RequestNames(update_text_input(window).text_input.requests) =
                (IF window.text_input.enabled THEN <<>> ELSE <<"enable">>) \o UpdateNames

\* The first flush of a focused field: enable, the four properties and the
\* commit.
EnabledAndCommitted ==
    /\ field.focused
    /\ window.text_input.enabled
    /\ RequestNames(window.text_input.requests) = <<"enable">> \o UpdateNames

\* The change cause among a sequence of requests, None without one.
SentCause(requests) ==
    LET sent == {i \in 1..Len(requests) : requests[i][1] = "set_text_change_cause"}
    IN  IF sent = {} THEN None ELSE requests[CHOOSE i \in sent : TRUE][2]

\* C17: a focused flush sends the pending change cause and clears it, or
\* sends InputMethod when none is pending, so that a second flush right
\* after it sends InputMethod.
CauseConsumedByFlush ==
    /\ Running
    /\ field.focused
    /\ window.text_input.present
    /\ ~surrounding_text_panics(field)
    => LET once == update_text_input(window)
           twice == update_text_input(once)
       IN  /\ window.ime_cause # "None" =>
                SentCause(once.text_input.requests) = window.ime_cause
           /\ window.ime_cause = "None" =>
                SentCause(once.text_input.requests) = "InputMethod"
           /\ once.ime_cause = "None"
           /\ SentCause(twice.text_input.requests) = "InputMethod"

\* A flush of the focused field has reported InputMethod although no
\* callback of the input method has set a cause, and none is pending.
InputMethodByDefault ==
    /\ field.focused
    /\ field.change_cause = "Other"
    /\ window.ime_cause = "None"
    /\ SentCause(window.text_input.requests) = "InputMethod"

\* The step ends with the text-input state of the focused field flushed.
FlushedFocused ==
    /\ ~window'.password_field.panicked
    /\ window'.password_field.focused
    /\ window'.text_input.present
    /\ ~window'.password_field.text_input_dirty

\* A callback of the input method, run with no earlier change pending,
\* whose changes were flushed in the same step.
ImeCallbackFlushed ==
    /\ \/ CommitString(CharSpace)
       \/ DeleteSurroundingText(1, 0)
       \/ \E p \in Preedits : SetPreeditString(p[1], p[2], p[3])
    /\ ~field.text_input_dirty
    /\ FlushedFocused

\* A key press that edits the text, a touch-down or a paste from the
\* clipboard, whose changes were flushed in the same step.
UserEventFlushed ==
    /\ \/ /\ \E k \in CauseKeys : PressKey(k[1], k[2])
          /\ window'.password_field.text # field.text
       \/ \E p \in {TapPosition, OutsidePosition, EntryPosition} : TouchDown(0, p)
       \/ Paste(CharA)
    /\ FlushedFocused

\* C18: the change cause a flush sends is the cause of the operation that
\* triggered it: InputMethod for changes that come only from callbacks of
\* the input method, Other for a key press, a touch or a clipboard paste.
CauseFollowsTrigger ==
    [][/\ ImeCallbackFlushed =>
            SentCause(window'.text_input.requests) = "InputMethod"
       /\ UserEventFlushed =>
            SentCause(window'.text_input.requests) = "Other"]_vars

\* C19: delete_surrounding_text completes for every before and after length
\* and every buffer, and leaves the cursor at the start of the range it
\* removed, a character boundary of the buffer at or before the old cursor.
DeleteSurroundingIsTotal ==
    [][\A b \in 0..MaxDelete, a \in 0..MaxDelete :
        DeleteSurroundingText(b, a) =>
            LET after == window'.password_field
            IN  /\ ~after.panicked
                /\ cursor_index(after) <= cursor_index(field)
                /\ is_char_boundary(after.text, cursor_index(after))
                /\ Len(after.text) <= Len(field.text)]_vars

\* C20: in the step in which the field loses the focus the selection is
\* cleared and the text input, if present and enabled, is disabled.
FocusLossDisablesIme ==
    [][/\ field.focused
       /\ ~window'.password_field.focused
       /\ ~window'.password_field.panicked
       => /\ window'.password_field.selection = None
          /\ window.text_input.present /\ window.text_input.enabled =>
                ~window'.text_input.enabled]_vars

\* C21: after a step that takes the focus away from the field (a blur by
\* set_focused(false), or the submit of Return) the field has no selection
\* and its preedit text is empty.
BlurClearsSelectionAndPreedit ==
    [][/\ field.focused
       /\ ~window'.password_field.focused
       /\ ~window'.password_field.panicked
       => /\ window'.password_field.selection = None
          /\ window'.password_field.preedit[1] = <<>>]_vars

\* C22: a press of Return without modifiers calls the handler installed at
\* that moment exactly once, with the buffer's content, and leaves the field
\* unfocused; replacing the handler calls none, and no other step makes a
\* call (none is queued or replayed): apart from the reset at the start of a
\* key press, the calls of the latest press are left as they are.
SubmitOncePerReturn ==
    [][LET after == window'.password_field
       IN  /\ PressKey("Return", NoModifiers) =>
                /\ after.submitted = <<<<field.submit_handler, field.text>>>>
                /\ ~after.focused
                /\ after.submit_handler = field.submit_handler
           /\ ~PressKey("Return", NoModifiers) =>
                after.submitted = IF \E k \in SubmitKeys : PressKey(k[1], k[2])
                                  THEN <<>>
                                  ELSE field.submitted
           /\ \A h \in Handlers :
                SetSubmitHandler(h) =>
                    /\ after.submit_handler = h
                    /\ after.submitted = field.submitted]_vars

\* The text typed into the field was submitted to a handler that replaced
\* the one installed by Window::new.
SubmittedToReplacement ==
    /\ field.submitted = <<<<"log", CharA>>>>
    /\ field.submit_handler = "log"
    /\ ~field.focused

\* C23: a touch-down on the unfocused field is classified as Focus, at every
\* time and position, and focuses the field with its whole text selected;
\* the release of a Focus touch leaves the text, the cursor and the selection
\* as they were.
FocusTouchOnlyFocuses ==
    [][LET after == window'.password_field
       IN  /\ /\ ~touching
              /\ touching'
              /\ window.view.details
              /\ in_password_field(window, window'.touch_state.position)
              /\ ~field.focused
              => /\ after.touch_state.action = "Focus"
                 /\ after.focused
                 /\ after.selection =
                        IF field.text = <<>> THEN None ELSE Range(0, Len(field.text))
                 /\ after.cursor_index = field.cursor_index
                 /\ after.cursor_offset = field.cursor_offset
           /\ /\ touching
              /\ ~touching'
              /\ field.touch_state.action = "Focus"
              => /\ after.text = field.text
                 /\ after.cursor_index = field.cursor_index
                 /\ after.cursor_offset = field.cursor_offset
                 /\ after.selection = field.selection
                 /\ after.touch_state = field.touch_state]_vars

\* A touch that focused the field 250 ms after the touch before it, at a
\* place away from the cursor, was released: the text is still selected from
\* end to end and the cursor is where it was.
FocusTouchReleased ==
    /\ ~touching
    /\ window.touch_state.action = "PasswordInput"
    /\ field.touch_state.action = "Focus"
    /\ field.touch_state.last_time = 250
    /\ field.touch_state.start_byte_index = 1
    /\ field.selection = Range(0, 4)
    /\ cursor_index(field) = 4

\* C24: delete_selected, called with the selection of the field, removes
\* exactly the bytes of the range from the buffer and leaves the cursor's
\* byte index at the start of the range; the stored cursor is
\* (start - 1, 1) exactly when start > 0 is the length of the new buffer,
\* and (start, 0) otherwise.
DeleteSelectedRemovesRange ==
    field.selection # None /\ ~field.panicked =>
        LET start == field.selection[1]
            end == field.selection[2]
            g == delete_selected([field EXCEPT !.selection = None], field.selection)
            at_end == start > 0 /\ start = Len(field.text) - (end - start)
        IN  /\ ~g.panicked
            /\ g.text = SubSeq(field.text, 1, start)
                            \o SubSeq(field.text, end + 1, Len(field.text))
            /\ cursor_index(g) = start
            /\ <<g.cursor_index, g.cursor_offset>> =
                    IF at_end THEN <<start - 1, 1>> ELSE <<start, 0>>

\* C25: paste and commit_string delete the selection, if there is one,
\* insert the text at the cursor's byte index and leave the cursor's byte
\* index behind the inserted text, whatever (index, offset) the cursor was
\* stored as.
InsertionIndex ==
    IF field.selection # None THEN field.selection[1] ELSE cursor_index(field)

InsertedAtCursor(text) ==
    LET after == window'.password_field
        kept == IF field.selection # None
                THEN SubSeq(field.text, 1, field.selection[1])
                        \o SubSeq(field.text, field.selection[2] + 1, Len(field.text))
                ELSE field.text
    IN  /\ ~after.panicked
        /\ after.selection = None
        /\ after.text = SubSeq(kept, 1, InsertionIndex) \o text
                            \o SubSeq(kept, InsertionIndex + 1, Len(kept))
        /\ cursor_index(after) = InsertionIndex + Len(text)

InsertAdvancesCursor ==
    [][\A c \in Chars :
        /\ Paste(c) => InsertedAtCursor(c)
        /\ CommitString(c) => InsertedAtCursor(c)]_vars

\* C26: when the field's IME state was marked dirty while the text input is
\* present, update_text_input eventually runs for it (Window::draw takes the
\* mark and flushes), in every view and for every kind of access point,
\* provided every requested frame callback is delivered and no further
\* input event arrives.
FlushPending ==
    window.text_input.present /\ field.text_input_dirty /\ ~field.panicked

DirtyFieldEventuallyFlushed == FlushPending ~> ~FlushPending

\* C27: when a motion takes a Tap out of the tap distance, the gesture
\* becomes a drag of the selection's end if the byte index of the touch-down
\* is less than 2 from the end and no farther from it than from the start, a
\* drag of the selection's start if it is less than 2 from the start
\* otherwise, and a Drag in every other case and without a selection.
OutOfTapDistance(position) ==
    LET pos == unpadded(field, position)
        dx == pos.x - field.touch_state.last_position.x
        dy == pos.y - field.touch_state.last_position.y
    IN  dx * dx + dy * dy > max_tap_distance

ClaimedDragAction ==
    LET down == field.touch_state.start_byte_index
        to_start == Abs(down - field.selection[1])
        to_end == Abs(down - field.selection[2])
    IN  IF field.selection = None THEN "Drag"
        ELSE IF to_end < 2 /\ to_end <= to_start THEN "DragSelectionEnd"
        ELSE IF to_start < 2 THEN "DragSelectionStart"
        ELSE "Drag"

MotionLeavesOnlyFarTaps ==
    [][\A p \in DragPositions :
        TouchMotion(p) /\ window.touch_state.action = "PasswordInput" =>
            LET ts == field.touch_state
                m == TouchState_motion(ts, unpadded(field, p), field.selection)
            IN  /\ m[1] = [ts EXCEPT !.action = m[1].action,
                                     !.last_motion_position = unpadded(field, p)]
                /\ m[1].action # ts.action <=> ts.action = "Tap" /\ OutOfTapDistance(p)
                /\ m[1].action \notin {"DragSelectionStart", "DragSelectionEnd"} =>
                        window'.password_field.touch_state = m[1]]_vars

\* A Tap was moved by exactly the tap distance (20 px, squared 400) and is
\* still a Tap.
TapHeldAtTapDistance ==
    LET ts == field.touch_state
        dx == ts.last_motion_position.x - ts.last_position.x
        dy == ts.last_motion_position.y - ts.last_position.y
    IN  /\ touching
        /\ window.touch_state.action = "PasswordInput"
        /\ ts.action = "Tap"
        /\ dx * dx + dy * dy = max_tap_distance

\* C29: a motion of a selection drag whose byte index is the boundary
\* opposite to the dragged one leaves the selection (and the dragged side)
\* as it was, and after every motion of a selection drag the selection has
\* start < end.
HitByte(f, pos) ==
    cursor_byte_index(f, hit_test(f, pos)[1], hit_test(f, pos)[2])

OppositeCaret(selection, action) ==
    IF action = "DragSelectionStart" THEN selection[2] ELSE selection[1]

SelectionDragNeverCollapses ==
    [][\A p \in DragPositions :
        LET m == TouchState_motion(field.touch_state, unpadded(field, p), field.selection)
            after == window'.password_field
        IN  /\ TouchMotion(p)
            /\ window.touch_state.action = "PasswordInput"
            /\ m[1].action \in {"DragSelectionStart", "DragSelectionEnd"}
            /\ field.selection # None
            => /\ HitByte(field, unpadded(field, p))
                        = OppositeCaret(field.selection, m[1].action)
                    => /\ after.selection = field.selection
                       /\ after.touch_state.action = m[1].action
               /\ after.selection # None
               /\ after.selection[1] < after.selection[2]]_vars

\* A selection drag was moved onto the caret opposite to the dragged one.
DraggedOntoOppositeCaret ==
    LET ts == field.touch_state
    IN  /\ touching
        /\ window.touch_state.action = "PasswordInput"
        /\ ts.action \in {"DragSelectionStart", "DragSelectionEnd"}
        /\ ts.last_motion_position # ts.last_position
        /\ field.selection # None
        /\ HitByte(field, ts.last_motion_position) = OppositeCaret(field.selection, ts.action)

\* C30: BackSpace and Delete, pressed while there is a selection, remove the
\* bytes of the selection from the buffer and nothing else, clear the
\* selection and leave the cursor's byte index at the selection's start.
EraseKeyDeletesSelection ==
    [][\A k \in {"BackSpace", "Delete"} :
        PressKey(k, NoModifiers) /\ field.selection # None =>
            LET after == window'.password_field
                start == field.selection[1]
                end == field.selection[2]
            IN  /\ ~after.panicked
                /\ after.text = SubSeq(field.text, 1, start)
                                    \o SubSeq(field.text, end + 1, Len(field.text))
                /\ after.selection = None
                /\ cursor_index(after) = start]_vars

\* C31: Delete pressed without a selection, with the cursor's byte index at
\* the end of the buffer, changes neither the buffer nor the position of the
\* cursor, whatever the last character of the buffer is.
DeleteAtEndChangesNothing ==
    [][/\ PressKey("Delete", NoModifiers)
       /\ field.selection = None
       /\ cursor_index(field) = Len(field.text)
       => LET after == window'.password_field
          IN  /\ ~after.panicked
              /\ after.text = field.text
              /\ cursor_index(after) = cursor_index(field)]_vars

\* C32: the release of a touch on the field whose action is Tap puts the
\* cursor at the (index, offset) under the touch-down position and leaves
\* the field focused without a selection, whatever was handled between the
\* touch-down and the release; the release of a Drag, a selection drag or a
\* Focus touch leaves the field as it was.
OnFieldRelease ==
    /\ TouchUp
    /\ window.view.details
    /\ window.touch_state.action = "PasswordInput"
    /\ in_password_field(window, window.touch_state.position)

TapReleasePlacesCursor ==
    [][LET after == window'.password_field
           hit == hit_test(field, field.touch_state.last_position)
       IN  /\ OnFieldRelease /\ field.touch_state.action = "Tap" =>
                /\ after.cursor_index = hit[1]
                /\ after.cursor_offset = hit[2]
                /\ after.focused
                /\ after.selection = None
           /\ OnFieldRelease
                /\ field.touch_state.action \in
                    {"Drag", "DragSelectionStart", "DragSelectionEnd", "Focus"} =>
                /\ after.text = field.text
                /\ after.cursor_index = field.cursor_index
                /\ after.cursor_offset = field.cursor_offset
                /\ after.selection = field.selection
                /\ after.focused = field.focused]_vars

\* C33: when the field goes from unfocused to focused the whole buffer is
\* selected if it is not empty and nothing is selected if it is empty;
\* set_focused(true) on a focused field and set_focused(false) on an
\* unfocused one leave the selection as it is.
WholeBuffer(f) == IF f.text = <<>> THEN None ELSE Range(0, Len(f.text))

FocusGainSelectsAll ==
    [][LET after == window'.password_field
           on_field == /\ ~touching
                       /\ touching'
                       /\ window.view.details
                       /\ in_password_field(window, window'.touch_state.position)
           elsewhere == ~touching /\ touching' /\ ~on_field
       IN  /\ ~field.focused /\ after.focused => after.selection = WholeBuffer(after)
           /\ on_field /\ field.focused => after.selection = field.selection
           /\ elsewhere /\ ~field.focused => after.selection = field.selection
           /\ ~field.focused => set_focused(field, TRUE).selection = WholeBuffer(field)
           /\ field.focused => set_focused(field, TRUE).selection = field.selection
           /\ ~field.focused => set_focused(field, FALSE).selection = field.selection]_vars

\* The field holding "a" was focused by a touch, which selected the byte;
\* and a focused field holding "a" without a selection was touched again.
FocusedWithWholeBuffer ==
    /\ touching
    /\ field.focused
    /\ field.text = CharA
    /\ field.touch_state.action = "Focus"
    /\ field.selection = Range(0, 1)

\* C34: a Connect tap released inside the connect button, for an access
\* point without a saved profile, issues one connect request; the request
\* carries the field's text whenever the access point is private and the
\* field is not empty, and it carries no password only when the access
\* point is open or the field is empty.
ConnectRelease ==
    /\ TouchUp
    /\ window.view.details
    /\ window.touch_state.action = "ConnectTap"
    /\ ~window.view.access_point.saved
    /\ in_connect_button(window, window.touch_state.position)

ConnectCarriesPassword ==
    [][ConnectRelease
       => LET access_point == window.view.access_point
          IN  /\ Len(window'.spawned) = 1
              /\ window'.spawned[1][1] = "connect"
              /\ access_point.private /\ field.text # <<>>
                    => window'.spawned[1][2] = <<field.text>>
              /\ window'.spawned[1][2] = None
                    => ~access_point.private \/ field.text = <<>>]_vars

\* The x of the set_cursor_rectangle request among a sequence of requests,
\* relative to the field's origin; None without one.
SentCursorRect(requests) ==
    LET sent == {i \in 1..Len(requests) : requests[i][1] = "set_cursor_rectangle"}
    IN  IF sent = {} THEN None ELSE <<requests[CHOOSE i \in sent : TRUE][2]>>

\* The cursor's x as the field's own geometry has it on screen: the layout's
\* position shifted by the scroll offset, the offset that touch positions
\* are corrected by and that update_scroll_offset keeps the cursor visible
\* with.
DisplayedCursorX(f) ==
    cursor_pos(f.text, f.scale, cursor_index(f)) \div PANGO_SCALE + f.scroll_offset

\* C35: the rectangle a focused flush sends with set_cursor_rectangle is
\* the field's origin plus the padding plus the cursor's pixel position
\* shifted by the scroll offset, and it lies within the field whenever the
\* cursor is in the visible range.
CursorRectFollowsScroll ==
    /\ Running
    /\ field.focused
    /\ window.text_input.present
    /\ ~surrounding_text_panics(field)
    => LET sent == SentCursorRect(update_text_input(window).text_input.requests)
       IN  /\ sent # None
           /\ sent[1] = PADDING * field.scale + DisplayedCursorX(field)
           /\ /\ 0 <= DisplayedCursorX(field)
              /\ DisplayedCursorX(field) <= field.width - 2 * PADDING * field.scale
                => 0 <= sent[1] /\ sent[1] <= password_field_width(window)

\* Keys without ctrl, alt and logo whose keysym has no character and that
\* no arm of press_key names: a bare Shift, and Left with shift held.
CharlessKeys ==
    {<<"Shift_L", NoModifiers>>, <<"Left", Modifiers(TRUE, FALSE, FALSE, FALSE)>>}

\* C36: a key press without ctrl, alt and logo whose keysym has no
\* character and which is not one of the editing keys leaves the content of
\* the buffer unchanged, also while there is a selection.
CharlessKeyKeepsText ==
    [][\A k \in CharlessKeys :
        PressKey(k[1], k[2]) =>
            /\ ~window'.password_field.panicked
            /\ window'.password_field.text = field.text]_vars

\* C37: in every reachable state the cursor's byte index, derived from
\* cursor_index and cursor_offset, lies in [0, length of the buffer], after
\* any interleaving of key presses, touch events and input-method callbacks.
CursorWithinText ==
    Running =>
        /\ 0 <= cursor_index(field)
        /\ cursor_index(field) <= Len(field.text)
        /\ field.cursor_offset > 0 =>
                field.cursor_index + field.cursor_offset <= Len(field.text)

\* C38: both cursor offsets that surrounding_text returns lie within
\* [0, length of the returned text], also with a selection longer than the
\* budget or reaching out of the window around the cursor.
SurroundingOffsetsInWindow ==
    Running /\ ~surrounding_text_panics(field) =>
        LET surrounding == surrounding_text(field)
        IN  /\ 0 <= surrounding.cursor_start
            /\ surrounding.cursor_start <= Len(surrounding.text)
            /\ 0 <= surrounding.cursor_end
            /\ surrounding.cursor_end <= Len(surrounding.text)

\* C39: whenever the field's text_input_dirty flag is false and a
\* text-input wrapper is present, the wrapper is enabled exactly when the
\* field is focused and, if it is focused, the surrounding text and the
\* offsets the latest flush sent are surrounding_text() of the state as it
\* is: no change of buffer, cursor, selection or focus is left unmarked.
TextInputInSync ==
    /\ Running
    /\ window.text_input.present
    /\ ~field.text_input_dirty
    => /\ window.text_input.enabled = field.focused
       /\ field.focused =>
            LET surrounding == surrounding_text(field)
            IN  /\ SentSurroundingText # None
                /\ SentSurroundingText =
                    <<"set_surrounding_text", surrounding.text,
                      surrounding.cursor_start, surrounding.cursor_end>>

\* A flush sent the selection [0, 1) of the focused field holding one
\* byte, and nothing has changed since.
SelectionInSync ==
    /\ Running
    /\ window.text_input.present
    /\ ~field.text_input_dirty
    /\ field.focused
    /\ Len(field.text) = 1
    /\ field.selection = Range(0, 1)
    /\ SentSurroundingText = <<"set_surrounding_text", field.text, 0, 1>>

\* C40: the window never has more than one frame callback outstanding and,
\* between events, it is stalled exactly when none is outstanding: unstall
\* draws only when stalled, a draw that finds nothing dirty sets stalled and
\* requests no frame, and a draw that renders requests exactly one.
OneFrameOutstanding ==
    Running =>
        /\ window.frames <= 1
        /\ window.stalled <=> window.frames = 0
        /\ ~window.stalled => unstall(window) = window
        /\ ~Window_dirty(window) =>
            /\ draw(window).stalled
            /\ draw(window).frames = window.frames
        /\ Window_dirty(window) =>
            /\ draw(window).stalled = window.stalled
            /\ draw(window).frames = window.frames + 1

\* An event made the window dirty while a frame callback was outstanding,
\* and no second frame was requested.
DirtyWhileFramePending ==
    /\ Running
    /\ ~window.stalled
    /\ window.frames = 1
    /\ Window_dirty(window)
    /\ field.text = CharA

====
